---- MODULE Spec2Model ----
(***************************************************************************)
(* Privacy & access-control core of the hospital records application:      *)
(* credential store (core/auth.py), field privacy engine                   *)
(* (core/encryption.py), audit log (core/logger.py), access guard and the  *)
(* Streamlit pages that call them.                                         *)
(*                                                                         *)
(* Text is modelled as a sequence of one-character strings over printable  *)
(* ASCII (the grave accent, which a TLA+ string cannot hold, is spelled    *)
(* "grave"), bytes as sequences of integers in 0..255, Python's None as    *)
(* the value None (NULL, 0, for a row id: AUTOINCREMENT ids start at 1).   *)
(* A call that may raise returns Ok(value) or Raise(exception name).  The  *)
(* fixed text of an f-string is kept as one element of the sequence, so    *)
(* f"LOGIN_FAILED username={u}" is <<"LOGIN_FAILED username=">> \o u.      *)
(***************************************************************************)
EXTENDS Integers, Sequences, FiniteSets, TLC

VARIABLES
  FERNET_KEY, \* core/encryption.py: the key of the running process ("": no process)
  ENV_FILE,  \* the FERNET_KEY entry of .env ("": no entry, or no file)
  users,     \* table users: rows [user_id, username, password, role] in id order
  cu,        \* create_user calls in flight: per caller, its position and locals
  session,   \* st.session_state of the browser session
  logs,      \* table logs: rows in log_id order
  auditUp,   \* whether the logs table can be written (FALSE: INSERT raises)
  patients,  \* table patients
  gdpr,      \* data/gdpr_settings.json: <<>> while the file does not exist
  now,       \* wall clock, in seconds
  out        \* what the most recent operation returned or displayed

vars == <<FERNET_KEY, ENV_FILE, users, cu, session, logs, auditUp, patients, gdpr, now, out>>

None == <<"None">>

NULL == 0

Ok(v) == [ok |-> TRUE, val |-> v]

Raise(e) == [ok |-> FALSE, val |-> e]

(***************************************************************************)
(* Python str / bytes primitives                                           *)
(***************************************************************************)
Printable ==
  << " ", "!", "\"", "#", "$", "%", "&", "'", "(", ")", "*", "+", ",", "-", ".", "/",
     "0", "1", "2", "3", "4", "5", "6", "7", "8", "9", ":", ";", "<", "=", ">", "?",
     "@", "A", "B", "C", "D", "E", "F", "G", "H", "I", "J", "K", "L", "M", "N", "O",
     "P", "Q", "R", "S", "T", "U", "V", "W", "X", "Y", "Z", "[", "\\", "]", "^", "_",
     "grave", "a", "b", "c", "d", "e", "f", "g", "h", "i", "j", "k", "l", "m", "n", "o",
     "p", "q", "r", "s", "t", "u", "v", "w", "x", "y", "z", "{", "|", "}", "~" >>

OrdOf ==
  [c \in {Printable[i] : i \in 1..Len(Printable)} |->
     31 + (CHOOSE i \in 1..Len(Printable) : Printable[i] = c)]

Ord(c) == OrdOf[c]

Chr(n) == Printable[n - 31]

IsDigit(c) == Ord(c) \in 48..57

IsSpace(c) == c = " "

LowerChar(c) == IF Ord(c) \in 65..90 THEN Chr(Ord(c) + 32) ELSE c

\* str.lower()
Lower(s) == [i \in 1..Len(s) |-> LowerChar(s[i])]

RECURSIVE LStrip(_)
LStrip(s) == IF s # <<>> /\ IsSpace(Head(s)) THEN LStrip(Tail(s)) ELSE s

RECURSIVE RStrip(_)
RStrip(s) ==
  IF s # <<>> /\ IsSpace(s[Len(s)]) THEN RStrip(SubSeq(s, 1, Len(s) - 1)) ELSE s

\* str.strip()
Strip(s) == RStrip(LStrip(s))

\* str.split(sep) for a one-character separator: the list of fields
RECURSIVE Split(_, _)
Split(s, sep) ==
  IF \A i \in 1..Len(s) : s[i] # sep
  THEN <<s>>
  ELSE LET k == CHOOSE i \in 1..Len(s) :
                  s[i] = sep /\ \A j \in 1..(i - 1) : s[j] # sep
       IN  <<SubSeq(s, 1, k - 1)>> \o Split(SubSeq(s, k + 1, Len(s)), sep)

\* str(n) for n >= 0
RECURSIVE IntToStr(_)
IntToStr(n) ==
  IF n < 10 THEN <<Chr(48 + n)>> ELSE IntToStr(n \div 10) \o <<Chr(48 + (n % 10))>>

RECURSIVE DigitsValue(_)
DigitsValue(s) ==
  IF s = <<>> THEN 0
  ELSE 10 * DigitsValue(SubSeq(s, 1, Len(s) - 1)) + (Ord(s[Len(s)]) - 48)

\* int(s): surrounding whitespace and one sign are accepted, anything that
\* is not then a non-empty run of digits raises ValueError
ParseInt(s) ==
  LET t    == Strip(s)
      neg  == t # <<>> /\ Head(t) = "-"
      body == IF t # <<>> /\ Head(t) \in {"+", "-"} THEN Tail(t) ELSE t
  IN  IF body # <<>> /\ \A i \in 1..Len(body) : IsDigit(body[i])
      THEN Ok(IF neg THEN 0 - DigitsValue(body) ELSE DigitsValue(body))
      ELSE Raise("ValueError")

HexChars == <<"0", "1", "2", "3", "4", "5", "6", "7", "8", "9", "a", "b", "c", "d", "e", "f">>

\* The value of each hexadecimal digit, in either case
HexOf ==
  [c \in {HexChars[i] : i \in 1..16} \cup {"A", "B", "C", "D", "E", "F"} |->
     (CHOOSE i \in 1..16 : HexChars[i] = LowerChar(c)) - 1]

IsHexChar(c) == c \in DOMAIN HexOf

HexVal(c) == HexOf[c]

\* binascii.hexlify(bytes).decode()
Hexlify(bytes) ==
  [i \in 1..(2 * Len(bytes)) |->
     IF i % 2 = 1 THEN HexChars[(bytes[(i + 1) \div 2] \div 16) + 1]
                  ELSE HexChars[(bytes[i \div 2] % 16) + 1]]

\* binascii.unhexlify(text): odd length or a non-hex character raises
Unhexlify(text) ==
  IF Len(text) % 2 = 1 \/ \E i \in 1..Len(text) : ~IsHexChar(text[i])
  THEN Raise("binascii.Error")
  ELSE Ok([i \in 1..(Len(text) \div 2) |->
             16 * HexVal(text[2 * i - 1]) + HexVal(text[2 * i])])

\* str.encode("utf-8") on ASCII text
Encode(s) == [i \in 1..Len(s) |-> Ord(s[i])]

(***************************************************************************)
(* core/auth.py: password helpers                                          *)
(***************************************************************************)
PBKDF2_ITERATIONS == 200000

SALT_BYTES == 16

\* Number of distinct values os.urandom is allowed to return
NumSalts == 2

\* os.urandom(SALT_BYTES): one of NumSalts byte strings of that length
Urandom(k) == [i \in 1..SALT_BYTES |-> (k * 37 + i * 11) % 256]

SaltPool == {Urandom(k) : k \in 1..NumSalts}

RECURSIVE Base256(_)
Base256(n) == IF n < 256 THEN <<n>> ELSE Base256(n \div 256) \o <<n % 256>>

\* hashlib.pbkdf2_hmac("sha256", password, salt, iterations): a digest that
\* is a collision-free function of its three inputs (the ideal the spec's
\* "with overwhelming probability" refers to); iterations < 1 raises.
pbkdf2_hmac(password, salt, iterations) ==
  IF iterations < 1
  THEN Raise("ValueError")
  ELSE Ok(<<Len(password)>> \o password \o <<Len(salt)>> \o salt \o Base256(iterations))

\* hmac.compare_digest
compare_digest(a, b) == a = b

\* _hash_password(password, iterations), salt being the value os.urandom
\* returned: the text iterations$salt_hex$hash_hex
_hash_password(password, iterations, salt) ==
  LET hash_bytes == pbkdf2_hmac(Encode(password), salt, iterations).val
  IN  IntToStr(iterations) \o <<"$">> \o Hexlify(salt) \o <<"$">> \o Hexlify(hash_bytes)

\* As VerifyBody, but deriving with the module default iteration count
VerifyBody_DefaultIterations(stored, provided_password) ==
  LET fields == Split(stored, "$")
  IN  IF Len(fields) # 3
      THEN Raise("ValueError")
      ELSE LET iterations == ParseInt(fields[1])
               salt == Unhexlify(fields[2])
               expected_hash == Unhexlify(fields[3])
           IN  IF ~iterations.ok THEN iterations
               ELSE IF ~salt.ok THEN salt
               ELSE IF ~expected_hash.ok THEN expected_hash
               ELSE LET new_hash == pbkdf2_hmac(Encode(provided_password),
                                                salt.val, PBKDF2_ITERATIONS)
                    IN  Ok(compare_digest(new_hash.val, expected_hash.val))

\* The try block of _verify_password; any exception is returned as Raise
VerifyBody(stored, provided_password) ==
  LET fields == Split(stored, "$")
  IN  IF Len(fields) # 3
      THEN Raise("ValueError")
      ELSE LET iterations == ParseInt(fields[1])
               salt == Unhexlify(fields[2])
               expected_hash == Unhexlify(fields[3])
           IN  IF ~iterations.ok THEN iterations
               ELSE IF ~salt.ok THEN salt
               ELSE IF ~expected_hash.ok THEN expected_hash
               ELSE LET new_hash == pbkdf2_hmac(Encode(provided_password),
                                                salt.val, iterations.val)
                    IN  IF ~new_hash.ok THEN new_hash
                        ELSE Ok(compare_digest(new_hash.val, expected_hash.val))

\* As _verify_password, without the except clause
_verify_password_NoExcept(stored, provided_password) ==
  VerifyBody(stored, provided_password)

\* _verify_password(stored, provided_password): except Exception -> False
_verify_password(stored, provided_password) ==
  LET r == VerifyBody(stored, provided_password)
  IN  IF r.ok THEN Ok(r.val) ELSE Ok(FALSE)

(***************************************************************************)
(* Text constants                                                          *)
(***************************************************************************)
s_admin == <<"a", "d", "m", "i", "n">>

s_doctor == <<"d", "o", "c", "t", "o", "r">>

s_receptionist == <<"r", "e", "c", "e", "p", "t", "i", "o", "n", "i", "s", "t">>

s_unknown == <<"u", "n", "k", "n", "o", "w", "n">>

s_login == <<"l", "o", "g", "i", "n">>

s_logout == <<"l", "o", "g", "o", "u", "t">>

s_add == <<"a", "d", "d">>

s_update == <<"u", "p", "d", "a", "t", "e">>

s_delete == <<"d", "e", "l", "e", "t", "e">>

s_view == <<"v", "i", "e", "w">>

s_anonymize == <<"a", "n", "o", "n", "y", "m", "i", "z", "e">>

s_anonymization == <<"a", "n", "o", "n", "y", "m", "i", "z", "a", "t", "i", "o", "n">>

s_export == <<"e", "x", "p", "o", "r", "t">>

s_backup == <<"b", "a", "c", "k", "u", "p">>

s_decrypt == <<"d", "e", "c", "r", "y", "p", "t">>

s_read == <<"r", "e", "a", "d">>

s_gdpr_delete == <<"g", "d", "p", "r", "_", "d", "e", "l", "e", "t", "e">>

s_other == <<"o", "t", "h", "e", "r">>

s_system == <<"s", "y", "s", "t", "e", "m">>

(***************************************************************************)
(* core/logger.py                                                          *)
(***************************************************************************)
VALID_ACTIONS ==
  { s_login, s_logout, s_add, s_update, s_delete, s_view, s_anonymize,
    s_anonymization, s_export, s_backup, s_decrypt, s_read, s_gdpr_delete,
    s_other }

\* datetime.strftime("%Y-%m-%d %H:%M:%S"): the date part (a day number),
\* then the time part (the second of that day)
DateTimeStr(t) == <<t \div 86400, t % 86400>>

\* As NormalizeAction, storing an unrecognised tag as it is
NormalizeAction_NoCoerce(action) ==
  Strip(Lower(IF action = None THEN <<>> ELSE action))

\* The action tag log_action stores: (action or "").lower().strip(), or
\* "other" when that is not in VALID_ACTIONS
NormalizeAction(action) ==
  LET a == Strip(Lower(IF action = None THEN <<>> ELSE action))
  IN  IF a \notin VALID_ACTIONS THEN s_other ELSE a

\* As log_action, on a logs table that keeps the latest entry only
log_action_KeepLatest(tbl, up, t, user_id, role, action, details) ==
  IF up
  THEN << [log_id    |-> Len(tbl) + 1,
           user_id   |-> user_id,
           role      |-> role,
           action    |-> NormalizeAction(action),
           timestamp |-> DateTimeStr(t),
           details   |-> details] >>
  ELSE tbl

\* log_action(user_id, role, action, details) on the logs table tbl: the
\* table afterwards.  A failing INSERT is caught and nothing is written.
log_action(tbl, up, t, user_id, role, action, details) ==
  IF up
  THEN Append(tbl, [log_id    |-> Len(tbl) + 1,
                    user_id   |-> user_id,
                    role      |-> role,
                    action    |-> NormalizeAction(action),
                    timestamp |-> DateTimeStr(t),
                    details   |-> details])
  ELSE tbl

(***************************************************************************)
(* core/auth.py: users                                                     *)
(***************************************************************************)
ALLOWED_ROLES == {s_admin, s_doctor, s_receptionist}

\* SELECT ... FROM users WHERE username = ? (fetchone): the rows found
SelectUser(tbl, username) ==
  SelectSeq(tbl, LAMBDA row : row.username = username)

\* As InsertUser, on a table whose username column is not UNIQUE
InsertUser_NoUnique(tbl, username, password, role) ==
  Ok(Append(tbl, [user_id  |-> Len(tbl) + 1,
                  username |-> username,
                  password |-> password,
                  role     |-> role]))

\* INSERT INTO users: the UNIQUE constraint on username (database.py)
\* rejects a second row with the same username
InsertUser(tbl, username, password, role) ==
  IF \E i \in 1..Len(tbl) : tbl[i].username = username
  THEN Raise("IntegrityError")
  ELSE Ok(Append(tbl, [user_id  |-> Len(tbl) + 1,
                       username |-> username,
                       password |-> password,
                       role     |-> role]))

\* As NormalizeRole, without lowering the case
NormalizeRole_NoLower(role) == Strip(role)

\* create_user, line 66: role.lower().strip()
NormalizeRole(role) == Strip(Lower(role))

\* get_user_by_username: <<>> for None, <<row>> for the user dict
get_user_by_username(tbl, username) ==
  LET rows == SelectUser(tbl, username)
  IN  IF rows = <<>> THEN <<>> ELSE <<rows[1]>>

\* As authenticate_user, logging every failure as an unknown user's
authenticate_user_AnonymousFailure(tbl, username, password) ==
  LET user == get_user_by_username(tbl, username)
      v == IF user # <<>> THEN _verify_password(user[1].password, password)
                          ELSE Ok(FALSE)
  IN  IF user # <<>> /\ v.ok /\ v.val
      THEN [raised  |-> FALSE,
            user    |-> user,
            uid     |-> user[1].user_id,
            role    |-> user[1].role,
            action  |-> s_login,
            details |-> username \o <<" logged in">>]
      ELSE [raised  |-> FALSE,
            user    |-> <<>>,
            uid     |-> NULL,
            role    |-> s_unknown,
            action  |-> s_login,
            details |-> <<"LOGIN_FAILED username=">> \o username]

\* authenticate_user(username, password): the value returned (<<>> for
\* None) and the arguments of its one log_action call; an exception in
\* _verify_password would leave the function before either
authenticate_user(tbl, username, password) ==
  LET user == get_user_by_username(tbl, username)
      v == IF user # <<>> THEN _verify_password(user[1].password, password)
                          ELSE Ok(FALSE)
  IN  IF ~v.ok
      THEN [raised |-> TRUE, user |-> <<>>, uid |-> NULL, role |-> <<>>,
            action |-> <<>>, details |-> <<>>]
      ELSE IF user # <<>> /\ v.val
      THEN [raised  |-> FALSE,
            user    |-> user,
            uid     |-> user[1].user_id,
            role    |-> user[1].role,
            action  |-> s_login,
            details |-> username \o <<" logged in">>]
      ELSE [raised  |-> FALSE,
            user    |-> <<>>,
            uid     |-> IF user # <<>> THEN user[1].user_id ELSE NULL,
            role    |-> IF user # <<>> THEN user[1].role ELSE s_unknown,
            action  |-> s_login,
            details |-> <<"LOGIN_FAILED username=">> \o username]

(***************************************************************************)
(* core/encryption.py                                                      *)
(***************************************************************************)
\* The key a started process holds, saved in .env
s_key_1 == "key-1"

\* load_or_create_fernet_key(), lines 16-35, for the FERNET_KEY entry found
\* in the environment ("" when there is none: "if env_key"), the key that
\* Fernet.generate_key() returns when called, and whether writing .env
\* raises: the key returned and the entry left in .env.  The handler of
\* lines 32-33 prints and the key is returned all the same.
load_or_create_fernet_key(env_key, key, save_fails) ==
  IF env_key # ""
  THEN [key |-> env_key, file |-> env_key, generated |-> FALSE]
  ELSE [key |-> key, file |-> IF save_fails THEN env_key ELSE key,
        generated |-> TRUE]

\* A Fernet token: the version marker, the key that authenticates it, then
\* the encrypted text.  Only encrypt_data makes a sequence that starts with
\* the marker; typed text never does.
FernetToken(key, text) == <<"gAAAAA", key>> \o text

IsFernetToken(key, c) == Len(c) >= 2 /\ c[1] = "gAAAAA" /\ c[2] = key

\* As encrypt_data, returning its argument
encrypt_data_Identity(plaintext) == plaintext

\* As encrypt_data, with "if not plaintext" for its first test
encrypt_data_Falsy(plaintext) ==
  IF plaintext = None \/ plaintext = <<>> THEN None
  ELSE FernetToken(FERNET_KEY, plaintext)

\* encrypt_data(plaintext)
encrypt_data(plaintext) ==
  IF plaintext = None THEN None ELSE FernetToken(FERNET_KEY, plaintext)

\* As decrypt_data, handing back what it was given when that is no token
decrypt_data_PassThrough(ciphertext) ==
  IF ciphertext = None THEN Ok(None)
  ELSE IF IsFernetToken(FERNET_KEY, ciphertext)
  THEN Ok(SubSeq(ciphertext, 3, Len(ciphertext)))
  ELSE Ok(ciphertext)

\* decrypt_data(ciphertext): InvalidToken unless a token under FERNET_KEY
decrypt_data(ciphertext) ==
  IF ciphertext = None THEN Ok(None)
  ELSE IF IsFernetToken(FERNET_KEY, ciphertext)
  THEN Ok(SubSeq(ciphertext, 3, Len(ciphertext)))
  ELSE Raise("InvalidToken")

\* Lines 48-50 and 55-57: fernet.encrypt and fernet.decrypt are reached only
\* past the "is None" test
encrypt_data_calls_fernet(plaintext) == plaintext # None

decrypt_data_calls_fernet(ciphertext) == ciphertext # None

\* The last four hex digits of hashlib.sha256(name).hexdigest(): a fixed
\* 16-bit function of the first n bytes, taken in order
RECURSIVE Digest16(_, _)
Digest16(bytes, n) ==
  IF n = 0 THEN 44257
  ELSE (Digest16(bytes, n - 1) * 31 + bytes[n]) % 65536

\* mask_name(name)
mask_name(name) ==
  IF name = <<>> \/ name = None THEN <<>>
  ELSE LET h == Digest16(Encode(name), Len(name))
       IN  <<"A", "N", "O", "N", "_">> \o Hexlify(<<h \div 256, h % 256>>)

\* reversed(seq)
Reversed(seq) == [i \in 1..Len(seq) |-> seq[Len(seq) + 1 - i]]

\* Lines 88-98: the loop over reversed(contact) from its n-th character on,
\* given digit_count and masked_chars before that character
RECURSIVE MaskLoop(_, _, _, _)
MaskLoop(rev, n, digit_count, masked_chars) ==
  IF n > Len(rev) THEN masked_chars
  ELSE IF IsDigit(rev[n])
  THEN MaskLoop(rev, n + 1, digit_count + 1,
                Append(masked_chars, IF digit_count + 1 <= 4 THEN rev[n] ELSE "X"))
  ELSE MaskLoop(rev, n + 1, digit_count, Append(masked_chars, rev[n]))

\* As mask_contact, with the loop running over contact from its left end
mask_contact_FromLeft(contact) ==
  IF contact = <<>> \/ contact = None THEN <<>>
  ELSE MaskLoop(contact, 1, 0, <<>>)

\* mask_contact(contact)
mask_contact(contact) ==
  IF contact = <<>> \/ contact = None THEN <<>>
  ELSE Reversed(MaskLoop(Reversed(contact), 1, 0, <<>>))

\* anonymize_patient_record({name, contact, diagnosis})
anonymize_patient_record(name, contact, diagnosis) ==
  [anonymized_name     |-> mask_name(name),
   anonymized_contact  |-> mask_contact(contact),
   encrypted_diagnosis |-> IF diagnosis # <<>> /\ diagnosis # None
                           THEN encrypt_data(diagnosis) ELSE <<>>]

(***************************************************************************)
(* core/validators.py: TRUE when the list of errors is not empty           *)
(***************************************************************************)
validate_name(name) ==
  \/ name = <<>> \/ Strip(name) = <<>>
  \/ Len(name) < 3
  \/ \E i \in 1..Len(name) : IsDigit(name[i])

validate_contact(contact) ==
  \/ contact = <<>> \/ Strip(contact) = <<>>
  \/ LET digits == IF Head(contact) = "+" THEN Tail(contact) ELSE contact
     IN  \/ digits = <<>>
         \/ \E i \in 1..Len(digits) : ~IsDigit(digits[i])
         \/ Len(digits) < 7
         \/ Len(digits) > 15

validate_diagnosis(diagnosis) ==
  \/ diagnosis = <<>> \/ Strip(diagnosis) = <<>>
  \/ Len(diagnosis) < 5

validate_patient_input(name, contact, diagnosis) ==
  validate_name(name) \/ validate_contact(contact) \/ validate_diagnosis(diagnosis)

(***************************************************************************)
(* core/database.py: the patients table                                    *)
(***************************************************************************)
\* The rows in patient_id order and the AUTOINCREMENT counter
EmptyPatients == [rows |-> <<>>, seq |-> 0]

\* DATE('now'): the date part alone
DateStr(t) == <<t \div 86400>>

\* INSERT INTO patients (...) VALUES (...)
InsertPatient(tbl, name, contact, diagnosis, anonymized_name, anonymized_contact, date_added) ==
  [rows |-> Append(tbl.rows, [patient_id         |-> tbl.seq + 1,
                              name               |-> name,
                              contact            |-> contact,
                              diagnosis          |-> diagnosis,
                              anonymized_name    |-> anonymized_name,
                              anonymized_contact |-> anonymized_contact,
                              date_added         |-> date_added]),
   seq  |-> tbl.seq + 1]

get_all_patients(tbl) == tbl.rows

\* get_patient_by_id: <<>> for None, <<row>> for the row
get_patient_by_id(tbl, patient_id) ==
  SelectSeq(tbl.rows, LAMBDA row : row.patient_id = patient_id)

\* As update_patient, leaving anonymized_name and anonymized_contact as
\* they were
update_patient_KeepsMask(tbl, patient_id, name, contact, encrypted_diagnosis, anonymized_name, anonymized_contact) ==
  [tbl EXCEPT !.rows =
     [i \in 1..Len(tbl.rows) |->
        IF tbl.rows[i].patient_id = patient_id
        THEN [tbl.rows[i] EXCEPT !.name = name, !.contact = contact,
                                 !.diagnosis = encrypted_diagnosis]
        ELSE tbl.rows[i]]]

update_patient(tbl, patient_id, name, contact, encrypted_diagnosis, anonymized_name, anonymized_contact) ==
  [tbl EXCEPT !.rows =
     [i \in 1..Len(tbl.rows) |->
        IF tbl.rows[i].patient_id = patient_id
        THEN [tbl.rows[i] EXCEPT !.name = name, !.contact = contact,
                                 !.diagnosis = encrypted_diagnosis,
                                 !.anonymized_name = anonymized_name,
                                 !.anonymized_contact = anonymized_contact]
        ELSE tbl.rows[i]]]

delete_patient(tbl, patient_id) ==
  [tbl EXCEPT !.rows = SelectSeq(tbl.rows, LAMBDA row : row.patient_id # patient_id)]

\* mass_anonymization.py, lines 25-53: every row's masked fields recomputed
\* and its diagnosis column passed through anonymize_patient_record again
anonymize_all_patients(tbl) ==
  [tbl EXCEPT !.rows =
     [i \in 1..Len(tbl.rows) |->
        LET row  == tbl.rows[i]
            anon == anonymize_patient_record(row.name, row.contact, row.diagnosis)
        IN  [row EXCEPT !.anonymized_name = anon.anonymized_name,
                        !.anonymized_contact = anon.anonymized_contact,
                        !.diagnosis = anon.encrypted_diagnosis]]]

(***************************************************************************)
(* core/gdpr.py: the retention policy file and the sweep                   *)
(***************************************************************************)
\* Lines 14-19: the settings written when the file is not found
DefaultSettings ==
  [retention_days |-> 1825, last_deleted_count |-> 0, total_deleted_count |-> 0,
   last_run |-> None]

\* load_gdpr_settings: the settings read and the file afterwards
load_gdpr_settings(file) ==
  IF file = <<>> THEN [settings |-> DefaultSettings, file |-> <<DefaultSettings>>]
  ELSE [settings |-> file[1], file |-> file]

save_gdpr_settings(settings) == <<settings>>

\* SQLite's comparison of two TEXT dates, each <<day>> ("%Y-%m-%d") or
\* <<day, second>> ("%Y-%m-%d %H:%M:%S"): character by character, a proper
\* prefix sorting first
TextLE(a, b) ==
  IF a[1] # b[1] THEN a[1] < b[1]
  ELSE IF Len(a) = 1 THEN TRUE
  ELSE IF Len(b) = 1 THEN FALSE
  ELSE a[2] <= b[2]

\* Line 33: cutoff_date.strftime("%Y-%m-%d %H:%M:%S")
CutoffStr(t, retention_days) == DateTimeStr(t - retention_days * 86400)

\* As DeleteOld, keeping a row dated exactly at the cutoff
DeleteOld_Exclusive(tbl, cutoff_str) ==
  LET Kept(row) == ~(TextLE(row.date_added, cutoff_str) /\ row.date_added # cutoff_str)
  IN  [tbl EXCEPT !.rows = SelectSeq(tbl.rows, Kept)]

\* Lines 36-41: DELETE FROM patients WHERE date_added <= cutoff_str
DeleteOld(tbl, cutoff_str) ==
  LET Kept(row) == ~TextLE(row.date_added, cutoff_str)
  IN  [tbl EXCEPT !.rows = SelectSeq(tbl.rows, Kept)]

\* As run_data_retention, with total_deleted_count set to deleted_now
run_data_retention_ResetsTotal(tbl, file, lg, up, t, user_id, role, fails) ==
  LET loaded      == load_gdpr_settings(file)
      days        == loaded.settings.retention_days
      swept       == DeleteOld(tbl, CutoffStr(t, days))
      deleted_now == Len(tbl.rows) - Len(swept.rows)
      settings    == [loaded.settings EXCEPT
                        !.last_deleted_count = deleted_now,
                        !.total_deleted_count = deleted_now,
                        !.last_run = DateTimeStr(t)]
  IN  IF fails = "database"
      THEN [raised |-> TRUE, patients |-> tbl, gdpr |-> loaded.file, logs |-> lg,
            ret |-> <<>>]
      ELSE IF fails = "file"
      THEN [raised |-> TRUE, patients |-> swept, gdpr |-> loaded.file, logs |-> lg,
            ret |-> <<>>]
      ELSE [raised |-> FALSE, patients |-> swept,
            gdpr |-> save_gdpr_settings(settings),
            logs |-> IF deleted_now > 0
                     THEN log_action(lg, up, t, user_id,
                                     IF role = None THEN s_system ELSE role,
                                     s_gdpr_delete,
                                     <<"Deleted ">> \o IntToStr(deleted_now)
                                       \o <<" patient records older than ">>
                                       \o IntToStr(days) \o <<" days.">>)
                     ELSE lg,
            ret |-> <<deleted_now, settings.total_deleted_count, days>>]

\* As run_data_retention, without the "if deleted_now > 0" of line 51
run_data_retention_AlwaysLogs(tbl, file, lg, up, t, user_id, role, fails) ==
  LET loaded      == load_gdpr_settings(file)
      days        == loaded.settings.retention_days
      swept       == DeleteOld(tbl, CutoffStr(t, days))
      deleted_now == Len(tbl.rows) - Len(swept.rows)
      settings    == [loaded.settings EXCEPT
                        !.last_deleted_count = deleted_now,
                        !.total_deleted_count = @ + deleted_now,
                        !.last_run = DateTimeStr(t)]
  IN  IF fails = "database"
      THEN [raised |-> TRUE, patients |-> tbl, gdpr |-> loaded.file, logs |-> lg,
            ret |-> <<>>]
      ELSE IF fails = "file"
      THEN [raised |-> TRUE, patients |-> swept, gdpr |-> loaded.file, logs |-> lg,
            ret |-> <<>>]
      ELSE [raised |-> FALSE, patients |-> swept,
            gdpr |-> save_gdpr_settings(settings),
            logs |-> log_action(lg, up, t, user_id,
                                IF role = None THEN s_system ELSE role,
                                s_gdpr_delete,
                                <<"Deleted ">> \o IntToStr(deleted_now)
                                  \o <<" patient records older than ">>
                                  \o IntToStr(days) \o <<" days.">>),
            ret |-> <<deleted_now, settings.total_deleted_count, days>>]

\* As run_data_retention, with the log_action call left unguarded by the
\* logger's own try/except, so that a failing INSERT reaches the caller
run_data_retention_LogRaises(tbl, file, lg, up, t, user_id, role, fails) ==
  LET loaded      == load_gdpr_settings(file)
      days        == loaded.settings.retention_days
      swept       == DeleteOld(tbl, CutoffStr(t, days))
      deleted_now == Len(tbl.rows) - Len(swept.rows)
      settings    == [loaded.settings EXCEPT
                        !.last_deleted_count = deleted_now,
                        !.total_deleted_count = @ + deleted_now,
                        !.last_run = DateTimeStr(t)]
  IN  IF fails = "database"
      THEN [raised |-> TRUE, patients |-> tbl, gdpr |-> loaded.file, logs |-> lg,
            ret |-> <<>>]
      ELSE IF fails = "file"
      THEN [raised |-> TRUE, patients |-> swept, gdpr |-> loaded.file, logs |-> lg,
            ret |-> <<>>]
      ELSE IF deleted_now > 0 /\ ~up
      THEN [raised |-> TRUE, patients |-> swept,
            gdpr |-> save_gdpr_settings(settings), logs |-> lg, ret |-> <<>>]
      ELSE [raised |-> FALSE, patients |-> swept,
            gdpr |-> save_gdpr_settings(settings),
            logs |-> IF deleted_now > 0
                     THEN log_action(lg, up, t, user_id,
                                     IF role = None THEN s_system ELSE role,
                                     s_gdpr_delete,
                                     <<"Deleted ">> \o IntToStr(deleted_now)
                                       \o <<" patient records older than ">>
                                       \o IntToStr(days) \o <<" days.">>)
                     ELSE lg,
            ret |-> <<deleted_now, settings.total_deleted_count, days>>]

\* run_data_retention(user_id, role) at time t.  fails names where the
\* storage fails during the call: "none", "database" (the DELETE raises,
\* after the settings have been loaded) or "file" (the settings cannot be
\* written back, after the DELETE has been committed).  Nothing in the
\* function catches either.
run_data_retention(tbl, file, lg, up, t, user_id, role, fails) ==
  LET loaded      == load_gdpr_settings(file)
      days        == loaded.settings.retention_days
      swept       == DeleteOld(tbl, CutoffStr(t, days))
      deleted_now == Len(tbl.rows) - Len(swept.rows)
      settings    == [loaded.settings EXCEPT
                        !.last_deleted_count = deleted_now,
                        !.total_deleted_count = @ + deleted_now,
                        !.last_run = DateTimeStr(t)]
  IN  IF fails = "database"
      THEN [raised |-> TRUE, patients |-> tbl, gdpr |-> loaded.file, logs |-> lg,
            ret |-> <<>>]
      ELSE IF fails = "file"
      THEN [raised |-> TRUE, patients |-> swept, gdpr |-> loaded.file, logs |-> lg,
            ret |-> <<>>]
      ELSE [raised |-> FALSE, patients |-> swept,
            gdpr |-> save_gdpr_settings(settings),
            logs |-> IF deleted_now > 0
                     THEN log_action(lg, up, t, user_id,
                                     IF role = None THEN s_system ELSE role,
                                     s_gdpr_delete,
                                     <<"Deleted ">> \o IntToStr(deleted_now)
                                       \o <<" patient records older than ">>
                                       \o IntToStr(days) \o <<" days.">>)
                     ELSE lg,
            ret |-> <<deleted_now, settings.total_deleted_count, days>>]

(***************************************************************************)
(* State after construction: empty tables, nobody logged in                *)
(***************************************************************************)
EmptySession == [k \in {} |-> None]

Callers == {"c1", "c2"}

IdleCall ==
  [pc |-> "idle", username |-> <<>>, password |-> <<>>, role_arg |-> <<>>,
   role |-> <<>>, ret |-> "none", user_id |-> NULL]

\* Largest number of rows the logs table is let grow to
MaxLog == 3

CanLog == auditUp => Len(logs) < MaxLog

(***************************************************************************)
(* create_user(username, password, role), core/auth.py                     *)
(***************************************************************************)
s_drB == <<"d", "r", "B">>

s_DrB == <<"D", "r", "B">>

s_pw1 == <<"p", "w", "1">>

s_pw2 == <<"p", "w", "2">>

s_wrong == <<"w", "r", "o", "n", "g">>

s_nurse == <<"n", "u", "r", "s", "e">>

Usernames == {s_drB, s_DrB}

Passwords == {s_pw1, s_pw2}

RoleInputs == {s_doctor, <<"A", "d", "m", "i", "n">>, <<" ", "R", "e", "c", "e", "p", "t", "i", "o", "n", "i", "s", "t", " ">>, s_nurse}

\* Lines 66-78: normalise and validate the role, then SELECT the username
CreateUserCheck(c, username, password, role_arg) ==
  /\ cu[c].pc \in {"idle", "done"}
  /\ LET role == NormalizeRole(role_arg)
         call == [IdleCall EXCEPT !.username = username, !.password = password,
                                  !.role_arg = role_arg, !.role = role]
     IN  cu' = [cu EXCEPT ![c] =
           IF role \notin ALLOWED_ROLES
           THEN [call EXCEPT !.pc = "done", !.password = <<>>, !.role = <<>>,
                             !.ret = "ValueError: Invalid role"]
           ELSE IF SelectUser(users, username) # <<>>
           THEN [call EXCEPT !.pc = "done", !.password = <<>>, !.role = <<>>,
                             !.ret = "ValueError: Username already exists"]
           ELSE [call EXCEPT !.pc = "insert"]]
  /\ UNCHANGED <<FERNET_KEY, ENV_FILE, users, session, logs, auditUp, patients, gdpr, now, out>>

\* Lines 80-89: hash the password with a fresh salt, INSERT, commit, return
CreateUserInsert(c, salt) ==
  /\ cu[c].pc = "insert"
  /\ LET pwd_stored == _hash_password(cu[c].password, PBKDF2_ITERATIONS, salt)
         r == InsertUser(users, cu[c].username, pwd_stored, cu[c].role)
     IN  IF r.ok
         THEN /\ users' = r.val
              /\ cu' = [cu EXCEPT ![c].pc = "done", ![c].password = <<>>,
                                  ![c].role = <<>>, ![c].ret = "created",
                                  ![c].user_id = Len(r.val)]
         ELSE /\ users' = users
              /\ cu' = [cu EXCEPT ![c].pc = "done", ![c].password = <<>>,
                                  ![c].role = <<>>, ![c].ret = r.val]
  /\ UNCHANGED <<FERNET_KEY, ENV_FILE, session, logs, auditUp, patients, gdpr, now, out>>

UsersInit ==
  /\ FERNET_KEY = s_key_1
  /\ ENV_FILE = s_key_1
  /\ users = <<>>
  /\ cu = [c \in Callers |-> IdleCall]
  /\ session = EmptySession
  /\ logs = <<>>
  /\ auditUp = TRUE
  /\ patients = EmptyPatients
  /\ gdpr = <<>>
  /\ now = 0
  /\ out = [op |-> "none"]

UsersNext ==
  \/ \E c \in Callers, u \in Usernames, p \in Passwords, r \in RoleInputs :
       CreateUserCheck(c, u, p, r)
  \/ \E c \in Callers, salt \in SaltPool : CreateUserInsert(c, salt)

\* Concurrent create_user calls on an empty database
SpecUsers == UsersInit /\ [][UsersNext]_vars

(***************************************************************************)
(* Credential verification against stored artifacts, current and legacy    *)
(***************************************************************************)
Join3(a, b, c) == a \o <<"$">> \o b \o <<"$">> \o c

CredPasswords == {s_pw1, s_pw2, <<>>}

IterationChoices == {PBKDF2_ITERATIONS, 100000, 1}

WellFormedArtifacts ==
  {_hash_password(p, it, salt) :
     p \in CredPasswords, it \in IterationChoices, salt \in SaltPool}

MalformedArtifacts ==
  LET f == Split(_hash_password(s_pw1, PBKDF2_ITERATIONS, Urandom(1)), "$")
  IN  { <<>>,
        f[1] \o <<"$">> \o f[2],
        Join3(f[1], f[2], f[3]) \o <<"$">> \o f[3],
        Join3(<<"2", "0", "k">>, f[2], f[3]),
        Join3(<<>>, f[2], f[3]),
        Join3(f[1], <<"z", "z">> \o Tail(Tail(f[2])), f[3]),
        Join3(f[1], Tail(f[2]), f[3]),
        Join3(f[1], f[2], <<"n", "o", "t", "h", "e", "x">>),
        Join3(f[1], f[2], Tail(f[3])),
        Join3(<<"0">>, f[2], f[3]),
        Join3(<<"-", "5">>, f[2], f[3]) }

\* A direct call of _verify_password on the first user's stored artifact
VerifyPassword(p) ==
  /\ users # <<>>
  /\ LET r == _verify_password(users[1].password, p)
     IN  out' = [op |-> "_verify_password", password |-> p,
                 raised |-> ~r.ok, result |-> r.ok /\ r.val]
  /\ UNCHANGED <<FERNET_KEY, ENV_FILE, users, cu, session, logs, auditUp, patients, gdpr, now>>

\* A direct call of authenticate_user(username, password)
Authenticate(u, p) ==
  /\ CanLog
  /\ LET a == authenticate_user(users, u, p)
     IN  /\ logs' = IF a.raised THEN logs
                    ELSE log_action(logs, auditUp, now, a.uid, a.role, a.action, a.details)
         /\ out' = [op |-> "authenticate_user", username |-> u, password |-> p,
                    raised |-> a.raised, user |-> a.user]
  /\ UNCHANGED <<FERNET_KEY, ENV_FILE, users, cu, session, auditUp, patients, gdpr, now>>

CredInit ==
  /\ FERNET_KEY = s_key_1
  /\ ENV_FILE = s_key_1
  /\ \E art \in WellFormedArtifacts \cup MalformedArtifacts :
       users = << [user_id |-> 1, username |-> s_drB, password |-> art,
                   role |-> s_doctor] >>
  /\ cu = [c \in Callers |-> IdleCall]
  /\ session = EmptySession
  /\ logs = <<>>
  /\ auditUp = TRUE
  /\ patients = EmptyPatients
  /\ gdpr = <<>>
  /\ now = 0
  /\ out = [op |-> "none"]

CredNext ==
  \/ \E p \in CredPasswords \cup {s_wrong} : VerifyPassword(p)
  \/ \E u \in Usernames, p \in CredPasswords \cup {s_wrong} : Authenticate(u, p)

\* One user whose stored artifact is any current, earlier-default or
\* damaged artifact; callers verify and authenticate against it
SpecCred == CredInit /\ [][CredNext]_vars

(***************************************************************************)
(* st.session_state: a dictionary, here a function from its keys           *)
(***************************************************************************)
Get(sess, k, default) == IF k \in DOMAIN sess THEN sess[k] ELSE default

Put(sess, k, v) == [x \in DOMAIN sess \cup {k} |-> IF x = k THEN v ELSE sess[x]]

Pop(sess, k) == [x \in DOMAIN sess \ {k} |-> sess[x]]

(***************************************************************************)
(* The logs table becoming unwritable and writable again (a locked or full *)
(* database): log_action catches the failing INSERT                        *)
(***************************************************************************)
AuditFail ==
  /\ auditUp
  /\ auditUp' = FALSE
  /\ UNCHANGED <<FERNET_KEY, ENV_FILE, users, cu, session, logs, patients, gdpr, now, out>>

AuditRecover ==
  /\ ~auditUp
  /\ auditUp' = TRUE
  /\ UNCHANGED <<FERNET_KEY, ENV_FILE, users, cu, session, logs, patients, gdpr, now, out>>

(***************************************************************************)
(* require_role_streamlit(required_roles), core/auth.py                    *)
(***************************************************************************)
\* As Guard, comparing the session's role as it is written
Guard_CaseSensitive(sess, required_roles) ==
  LET roles_set == {Lower(required_roles)}
      user_id == Get(sess, "user_id", NULL)
      role == Get(sess, "role", None)
  IN  IF user_id = NULL \/ role = None \/ role = <<>> THEN "NotAuthenticated"
      ELSE IF role \notin roles_set THEN "InsufficientRole"
      ELSE "granted"

\* The decision of wrapper() for required_roles given as one string
Guard(sess, required_roles) ==
  LET roles_set == {Lower(required_roles)}
      user_id == Get(sess, "user_id", NULL)
      role == Get(sess, "role", None)
  IN  IF user_id = NULL \/ role = None \/ role = <<>> THEN "NotAuthenticated"
      ELSE IF Lower(role) \notin roles_set THEN "InsufficientRole"
      ELSE "granted"

\* As DeniedLog, writing the unauthenticated entry for every denial
DeniedLog_Anonymous(tbl, up, t, sess, decision) ==
  log_action(tbl, up, t, NULL, s_unknown, s_login,
             <<"ACCESS_DENIED: not logged in">>)

\* The logs table after the log_action call of a denial
DeniedLog(tbl, up, t, sess, decision) ==
  IF decision = "NotAuthenticated"
  THEN log_action(tbl, up, t, NULL, s_unknown, s_login,
                  <<"ACCESS_DENIED: not logged in">>)
  ELSE log_action(tbl, up, t, sess["user_id"], sess["role"], s_view,
                  <<"ACCESS_DENIED: insufficient role">>)

\* wrapper() refusing the page: log_action, st.error, st.stop
Denied(page, required_roles) ==
  /\ Guard(session, required_roles) # "granted"
  /\ CanLog
  /\ logs' = DeniedLog(logs, auditUp, now, session, Guard(session, required_roles))
  /\ out' = [op |-> page, required |-> required_roles,
             guard |-> Guard(session, required_roles), body |-> FALSE]
  /\ UNCHANGED <<FERNET_KEY, ENV_FILE, users, cu, session, auditUp, patients, gdpr, now>>

\* wrapper() calling a guarded function that does nothing but return
GrantedCall(page, required_roles) ==
  /\ Guard(session, required_roles) = "granted"
  /\ out' = [op |-> page, required |-> required_roles,
             guard |-> "granted", body |-> TRUE]
  /\ UNCHANGED <<FERNET_KEY, ENV_FILE, users, cu, session, logs, auditUp, patients, gdpr, now>>

\* Every key of st.session_state deleted (what each dashboard's Logout
\* button does before it leaves the page)
ClearSession ==
  /\ DOMAIN session # {}
  /\ session' = EmptySession
  /\ out' = [op |-> "clear"]
  /\ UNCHANGED <<FERNET_KEY, ENV_FILE, users, cu, logs, auditUp, patients, gdpr, now>>

\* Sessions a wrapped function can be called in: nobody logged in, a user
\* id without a role, an empty role, and roles in either case
GuardSessions ==
  {EmptySession}
    \cup {Put(EmptySession, "user_id", 2)}
    \cup {Put(EmptySession, "role", s_admin)}
    \cup {Put(Put(EmptySession, "user_id", uid), "role", r) :
            uid \in {1, 2},
            r \in {<<>>, s_admin, s_doctor, s_receptionist, <<"A", "d", "m", "i", "n">>, <<"D", "O", "C", "T", "O", "R">>,
                   s_nurse}}

RequiredRoles == {s_admin, s_doctor, s_receptionist, <<"A", "d", "m", "i", "n">>}

GuardInit ==
  /\ FERNET_KEY = s_key_1
  /\ ENV_FILE = s_key_1
  /\ users = <<>>
  /\ cu = [c \in Callers |-> IdleCall]
  /\ session \in GuardSessions
  /\ logs = <<>>
  /\ auditUp = TRUE
  /\ patients = EmptyPatients
  /\ gdpr = <<>>
  /\ now = 0
  /\ out = [op |-> "none"]

GuardNext ==
  \/ \E r \in RequiredRoles : Denied("func", r)
  \/ \E r \in RequiredRoles : GrantedCall("func", r)
  \/ ClearSession
  \/ AuditFail
  \/ AuditRecover

\* The access guard around a function, called in any session
SpecGuard == GuardInit /\ [][GuardNext]_vars

(***************************************************************************)
(* core/seed_users.py: the three accounts the application is installed     *)
(* with                                                                    *)
(***************************************************************************)
s_DrBob == <<"D", "r", ".", " ", "B", "o", "b">>

s_Alice == <<"A", "l", "i", "c", "e", "_", "r", "e", "c", "e", "p">>

s_mallory == <<"m", "a", "l", "l", "o", "r", "y">>

s_admin123 == <<"a", "d", "m", "i", "n", "1", "2", "3">>

s_doc123 == <<"d", "o", "c", "1", "2", "3">>

s_rec123 == <<"r", "e", "c", "1", "2", "3">>

\* create_user on a table that accepts the row
create_user(tbl, username, password, role) ==
  InsertUser(tbl, username,
             _hash_password(password, PBKDF2_ITERATIONS, Urandom(1)),
             NormalizeRole(role)).val

seed_users ==
  create_user(create_user(create_user(<<>>, s_admin, s_admin123, s_admin),
                          s_DrBob, s_doc123, s_doctor),
              s_Alice, s_rec123, s_receptionist)

(***************************************************************************)
(* A run of a page's script with nothing clicked: what st.switch_page and  *)
(* st.rerun start when a handler ends with them                            *)
(***************************************************************************)
Pages == {"admin_page", "doctor_page", "receptionist_page"}

RequiredRole(page) ==
  IF page = "admin_page" THEN s_admin
  ELSE IF page = "doctor_page" THEN s_doctor
  ELSE s_receptionist

\* pages/2_Dashboard_Admin.py, lines 49-50: the admin_tab key created when
\* absent
AdminEnter(sess) ==
  IF "admin_tab" \in DOMAIN sess THEN sess
  ELSE Put(sess, "admin_tab", <<"Patient Records">>)

\* pages/2_Dashboard_Admin.py, lines 246-264: the update form of the row
\* named by update_id
UpdateForm(sess, tbl) ==
  LET pid     == Get(sess, "update_id", NULL)
      patient == IF pid = NULL THEN <<>> ELSE get_patient_by_id(tbl, pid)
      enc     == patient[1].diagnosis
      cur     == IF enc # <<>> THEN decrypt_data(enc) ELSE Ok(<<>>)
  IN  IF pid = NULL THEN [state |-> "absent"]
      ELSE IF patient = <<>> THEN [state |-> "gone"]
      ELSE IF ~cur.ok THEN [state |-> "error"]
      ELSE [state |-> "shown", pid |-> pid,
            current_name    |-> patient[1].name,
            current_contact |-> patient[1].contact,
            current_diag    |-> cur.val]

\* The session once the admin script has gone on from line 185 to the end
\* of the Patient Records tab: st.stop() with no rows, update_id popped
\* when its row is gone
RowActions(sess, tbl) ==
  IF get_all_patients(tbl) = <<>> THEN sess
  ELSE IF UpdateForm(sess, tbl).state = "gone" THEN Pop(sess, "update_id")
  ELSE sess

\* The body of a dashboard run with nothing clicked: the session and the
\* logs table afterwards.  admin_page logs nothing, doctor_page logs the
\* view, receptionist_page returns before its log_action when there are no
\* rows (line 102).
RenderRun(page, sess, lg, up, t, tbl) ==
  IF page = "admin_page"
  THEN [session |-> RowActions(AdminEnter(sess), tbl), logs |-> lg]
  ELSE IF page = "doctor_page"
  THEN [session |-> sess,
        logs    |-> IF "user_id" \in DOMAIN sess /\ "role" \in DOMAIN sess
                    THEN log_action(lg, up, t, sess["user_id"], sess["role"], s_view,
                                    <<"Doctor viewed anonymized patient data">>)
                    ELSE lg]
  ELSE [session |-> sess,
        logs    |-> IF get_all_patients(tbl) = <<>> THEN lg
                    ELSE log_action(lg, up, t, sess["user_id"], s_receptionist,
                                    s_view, <<"Viewed patient list">>)]

\* A dashboard's script run from its first line: the guard, then the body
PageRun(page, sess, lg, up, t, tbl) ==
  IF Guard(sess, RequiredRole(page)) = "granted"
  THEN RenderRun(page, sess, lg, up, t, tbl)
  ELSE [session |-> sess,
        logs    |-> DeniedLog(lg, up, t, sess, Guard(sess, RequiredRole(page)))]

\* app.py, lines 6-13: the landing page notes when the session started and
\* runs the retention sweep as "system"
LandingRun(sess, tbl, file, lg, up, t) ==
  LET r == run_data_retention(tbl, file, lg, up, t, NULL, s_system, "none")
  IN  [session  |-> IF "app_start_time" \in DOMAIN sess THEN sess
                    ELSE Put(sess, "app_start_time", DateTimeStr(t)),
       logs     |-> r.logs,
       patients |-> r.patients,
       gdpr     |-> r.gdpr]

(***************************************************************************)
(* pages/1_Login.py                                                        *)
(***************************************************************************)
\* Lines 6-14: the two keys the page creates when they are absent
LoginDefaults(sess) ==
  LET s1 == IF "login_attempts" \in DOMAIN sess THEN sess
            ELSE Put(sess, "login_attempts", 0)
  IN  IF "gdpr_consent" \in DOMAIN s1 THEN s1 ELSE Put(s1, "gdpr_consent", FALSE)

\* Lines 77-93: a session that is logged in is sent on to its dashboard
\* before the form is drawn
Redirected(sess) ==
  /\ "user" \in DOMAIN sess \/ "username" \in DOMAIN sess
  /\ (IF "user" \in DOMAIN sess THEN sess["user"].role ELSE Get(sess, "role", None))
       \in ALLOWED_ROLES

FormShown(sess) == sess["gdpr_consent"] /\ ~Redirected(sess)

DashboardOf(role) ==
  IF role = s_admin THEN "admin_page"
  ELSE IF role = s_doctor THEN "doctor_page"
  ELSE IF role = s_receptionist THEN "receptionist_page"
  ELSE "login_page"

\* As LoginResult, with a failure message that tells an unknown username
\* from a wrong password
LoginResult_NamesCause(a, sess) ==
  LET attempts == sess["login_attempts"] + 1
      remaining == 3 - attempts
  IN  IF a.user # <<>>
      THEN [session |-> sess, message |-> <<"Logged in">>,
            page |-> DashboardOf(a.user[1].role)]
      ELSE [session |-> Put(sess, "login_attempts", attempts % 3),
            message |-> IF a.uid = NULL
                        THEN <<"Unknown username. Attempts left: ">> \o IntToStr(remaining)
                        ELSE <<"Wrong password. Attempts left: ">> \o IntToStr(remaining),
            page    |-> "login_page"]

\* As LoginResult, leaving login_attempts as it is on a successful login
LoginResult_KeepsCount(a, sess) ==
  LET attempts == sess["login_attempts"] + 1
      remaining == 3 - attempts
  IN  IF a.raised
      THEN [session |-> sess, message |-> <<"Traceback">>, page |-> "login_page"]
      ELSE IF a.user # <<>>
      THEN [session |->
              [k \in DOMAIN sess \cup {"login_attempts", "logged_in", "user_id",
                                       "username", "role", "user"} |->
                 IF k = "login_attempts" THEN sess[k]
                 ELSE IF k = "logged_in" THEN TRUE
                 ELSE IF k = "user_id" THEN a.user[1].user_id
                 ELSE IF k = "username" THEN a.user[1].username
                 ELSE IF k = "role" THEN a.user[1].role
                 ELSE IF k = "user" THEN a.user[1]
                 ELSE sess[k]],
            message |-> IF a.user[1].role = s_admin THEN <<"Logged in as Admin!">>
                        ELSE IF a.user[1].role = s_doctor THEN <<"Logged in as Doctor!">>
                        ELSE IF a.user[1].role = s_receptionist
                        THEN <<"Logged in as Receptionist!">>
                        ELSE <<>>,
            page    |-> DashboardOf(a.user[1].role)]
      ELSE IF remaining > 0
      THEN [session |-> Put(sess, "login_attempts", attempts),
            message |-> <<"Invalid username or password. Attempts left: ">>
                          \o IntToStr(remaining),
            page    |-> "login_page"]
      ELSE [session |-> Put(sess, "login_attempts", 0),
            message |-> <<"Maximum login attempts reached! Redirecting...">>,
            page    |-> "app"]

\* Lines 106-145, the handler of the Login button once authenticate_user
\* has returned a: the session afterwards, the message shown and the page
\* switched to
LoginResult(a, sess) ==
  LET attempts == sess["login_attempts"] + 1
      remaining == 3 - attempts
  IN  IF a.raised
      THEN [session |-> sess, message |-> <<"Traceback">>, page |-> "login_page"]
      ELSE IF a.user # <<>>
      THEN [session |->
              [k \in DOMAIN sess \cup {"login_attempts", "logged_in", "user_id",
                                       "username", "role", "user"} |->
                 IF k = "login_attempts" THEN 0
                 ELSE IF k = "logged_in" THEN TRUE
                 ELSE IF k = "user_id" THEN a.user[1].user_id
                 ELSE IF k = "username" THEN a.user[1].username
                 ELSE IF k = "role" THEN a.user[1].role
                 ELSE IF k = "user" THEN a.user[1]
                 ELSE sess[k]],
            message |-> IF a.user[1].role = s_admin THEN <<"Logged in as Admin!">>
                        ELSE IF a.user[1].role = s_doctor THEN <<"Logged in as Doctor!">>
                        ELSE IF a.user[1].role = s_receptionist
                        THEN <<"Logged in as Receptionist!">>
                        ELSE <<>>,
            page    |-> DashboardOf(a.user[1].role)]
      ELSE IF remaining > 0
      THEN [session |-> Put(sess, "login_attempts", attempts),
            message |-> <<"Invalid username or password. Attempts left: ">>
                          \o IntToStr(remaining),
            page    |-> "login_page"]
      ELSE [session |-> Put(sess, "login_attempts", 0),
            message |-> <<"Maximum login attempts reached! Redirecting...">>,
            page    |-> "app"]

\* The page opened or reloaded with nothing clicked: the banner until
\* consent is given, the form, or for a logged-in session its dashboard
LoginOpen ==
  /\ \E sess \in {LoginDefaults(session)} :
     \E run \in {IF sess["gdpr_consent"] /\ Redirected(sess)
                 THEN PageRun(DashboardOf(sess["role"]), sess, logs, auditUp, now,
                              patients)
                 ELSE [session |-> sess, logs |-> logs]} :
       /\ Len(run.logs) <= MaxLog
       /\ session' = run.session
       /\ logs' = run.logs
       /\ out' = [op |-> "login_page", click |-> "none",
                  page |-> IF sess["gdpr_consent"] /\ Redirected(sess)
                           THEN DashboardOf(sess["role"]) ELSE "login_page"]
  /\ UNCHANGED <<FERNET_KEY, ENV_FILE, users, cu, auditUp, patients, gdpr, now>>

\* "I Consent" clicked on the banner
LoginConsent ==
  /\ ~LoginDefaults(session)["gdpr_consent"]
  /\ session' = Put(LoginDefaults(session), "gdpr_consent", TRUE)
  /\ out' = [op |-> "login_page", click |-> "consent", page |-> "login_page"]
  /\ UNCHANGED <<FERNET_KEY, ENV_FILE, users, cu, logs, auditUp, patients, gdpr, now>>

\* The login form submitted: authenticate_user with its log entry; on
\* success the session keys, the page's own log entry and the user's
\* dashboard; on the third failure in a row the landing page
LoginSubmit(username, password) ==
  /\ FormShown(LoginDefaults(session))
  /\ \E a \in {authenticate_user(users, username, password)} :
     \E r \in {LoginResult(a, LoginDefaults(session))} :
     \E l1 \in {IF a.raised THEN logs
                ELSE log_action(logs, auditUp, now, a.uid, a.role, a.action, a.details)} :
     \E l2 \in {IF a.user # <<>>
                THEN log_action(l1, auditUp, now, a.user[1].user_id, a.user[1].role,
                                s_login, a.user[1].username \o <<" logged in.">>)
                ELSE l1} :
     \E run \in {IF r.page \in Pages
                 THEN PageRun(r.page, r.session, l2, auditUp, now, patients)
                 ELSE [session |-> r.session, logs |-> l2]} :
     \E landed \in {IF r.page = "app"
                    THEN LandingRun(r.session, patients, gdpr, l2, auditUp, now)
                    ELSE [session |-> run.session, logs |-> run.logs,
                          patients |-> patients, gdpr |-> gdpr]} :
       /\ Len(landed.logs) <= MaxLog
       /\ session' = landed.session
       /\ logs' = landed.logs
       /\ patients' = landed.patients
       /\ gdpr' = landed.gdpr
       /\ out' = [op |-> "login_page", click |-> "submit", username |-> username,
                  password |-> password,
                  ok |-> a.user # <<>>, message |-> r.message, page |-> r.page]
  /\ UNCHANGED <<FERNET_KEY, ENV_FILE, users, cu, auditUp, now>>

(***************************************************************************)
(* The three dashboards, each a function wrapped by require_role_streamlit *)
(***************************************************************************)
\* What a run of a dashboard that the guard let through reports
PageOut(page, click) ==
  [op |-> page, required |-> RequiredRole(page), guard |-> "granted",
   body |-> TRUE, click |-> click]

\* A dashboard opened or reloaded with nothing clicked by a session the
\* guard lets through
Render(page) ==
  /\ Guard(session, RequiredRole(page)) = "granted"
  /\ \E run \in {RenderRun(page, session, logs, auditUp, now, patients)} :
       /\ Len(run.logs) <= MaxLog
       /\ session' = run.session
       /\ logs' = run.logs
  /\ out' = PageOut(page, "none")
  /\ UNCHANGED <<FERNET_KEY, ENV_FILE, users, cu, auditUp, patients, gdpr, now>>

\* pages/2_Dashboard_Admin.py: admin_page with nothing clicked
AdminRender == Render("admin_page")

\* pages/3_Dashboard_Doctor.py: doctor_page with nothing clicked
DoctorRender == Render("doctor_page")

\* pages/4_Dashboard_Receptionist.py: receptionist_page with nothing clicked
ReceptionistRender == Render("receptionist_page")

\* As Logout, deleting the logged_in flag only
Logout_KeepsIdentity(page) ==
  /\ Guard(session, RequiredRole(page)) = "granted"
  /\ session' = LoginDefaults(Pop(session, "logged_in"))
  /\ out' = PageOut(page, "logout")
  /\ UNCHANGED <<FERNET_KEY, ENV_FILE, users, cu, logs, auditUp, patients, gdpr, now>>

\* The sidebar Logout button of a dashboard: every session key deleted,
\* then st.switch_page to the login page, which shows its consent banner
Logout(page) ==
  /\ Guard(session, RequiredRole(page)) = "granted"
  /\ session' = LoginDefaults(EmptySession)
  /\ out' = PageOut(page, "logout")
  /\ UNCHANGED <<FERNET_KEY, ENV_FILE, users, cu, logs, auditUp, patients, gdpr, now>>

(***************************************************************************)
(* pages/4_Dashboard_Receptionist.py                                       *)
(***************************************************************************)
\* Largest patient_id the AUTOINCREMENT counter is let reach
MaxPatientId == 1

\* "Add Patient" clicked (lines 34-78): validation, the INSERT, the audit
\* entry, then st.rerun()
ReceptionistAdd(name, contact, diagnosis) ==
  /\ Guard(session, s_receptionist) = "granted"
  /\ IF validate_patient_input(name, contact, diagnosis)
     THEN /\ out' = PageOut("receptionist_page", "add_invalid")
          /\ UNCHANGED <<FERNET_KEY, ENV_FILE, patients, logs, session>>
     ELSE /\ patients.seq < MaxPatientId
          /\ \E anon \in {anonymize_patient_record(name, contact, diagnosis)} :
             \E tbl \in {InsertPatient(patients, name, contact,
                                       anon.encrypted_diagnosis, anon.anonymized_name,
                                       anon.anonymized_contact, DateStr(now))} :
             \E l1 \in {log_action(logs, auditUp, now, session["user_id"],
                                   s_receptionist, s_add,
                                   <<"Added patient: ">> \o anon.anonymized_name)} :
             \E run \in {RenderRun("receptionist_page", session, l1, auditUp, now, tbl)} :
               /\ Len(run.logs) <= MaxLog
               /\ patients' = tbl
               /\ logs' = run.logs
               /\ session' = run.session
          /\ out' = PageOut("receptionist_page", "add")
  /\ UNCHANGED <<FERNET_KEY, ENV_FILE, users, cu, auditUp, gdpr, now>>

\* "Save Changes for pid" clicked in the expander of row pid (lines
\* 119-200); a blank input leaves its field alone
ReceptionistEdit(pid, new_name, new_contact, new_diagnosis) ==
  /\ Guard(session, s_receptionist) = "granted"
  /\ get_patient_by_id(patients, pid) # <<>>
  /\ \E row \in {get_patient_by_id(patients, pid)[1]} :
     LET anon_name    == row.anonymized_name
         anon_contact == row.anonymized_contact
         name_in      == Strip(new_name) # <<>> /\ new_name # anon_name
         contact_in   == Strip(new_contact) # <<>> /\ new_contact # anon_contact
         diagnosis_in == Strip(new_diagnosis) # <<>>
         invalid      == \/ name_in /\ validate_name(new_name)
                         \/ contact_in /\ validate_contact(new_contact)
                         \/ diagnosis_in /\ validate_diagnosis(new_diagnosis)
     IN  IF invalid \/ ~(name_in \/ contact_in \/ diagnosis_in)
         THEN /\ out' = PageOut("receptionist_page", "edit_stopped")
              /\ UNCHANGED <<FERNET_KEY, ENV_FILE, patients, logs, session>>
         ELSE /\ \E anon \in {anonymize_patient_record(
                                IF name_in THEN new_name ELSE anon_name,
                                IF contact_in THEN new_contact ELSE anon_contact,
                                IF diagnosis_in THEN new_diagnosis ELSE <<>>)} :
                 \E new_row \in {[row EXCEPT
                      !.name = IF name_in THEN new_name ELSE @,
                      !.anonymized_name = IF name_in THEN anon.anonymized_name ELSE @,
                      !.contact = IF contact_in THEN new_contact ELSE @,
                      !.anonymized_contact =
                         IF contact_in THEN anon.anonymized_contact ELSE @,
                      !.diagnosis =
                         IF diagnosis_in THEN anon.encrypted_diagnosis ELSE @]} :
                 \E tbl \in {[patients EXCEPT !.rows =
                      [i \in 1..Len(patients.rows) |->
                         IF patients.rows[i].patient_id = pid
                         THEN new_row ELSE patients.rows[i]]]} :
                 \E l1 \in {log_action(logs, auditUp, now, session["user_id"],
                                       s_receptionist, s_update,
                                       <<"Edited patient #">> \o IntToStr(pid) \o <<" (">>
                                         \o anon.anonymized_name \o <<")">>)} :
                 \E run \in {RenderRun("receptionist_page", session, l1, auditUp, now,
                                       tbl)} :
                   /\ Len(run.logs) <= MaxLog
                   /\ patients' = tbl
                   /\ logs' = run.logs
                   /\ session' = run.session
              /\ out' = PageOut("receptionist_page", "edit")
  /\ UNCHANGED <<FERNET_KEY, ENV_FILE, users, cu, auditUp, gdpr, now>>

(***************************************************************************)
(* pages/2_Dashboard_Admin.py, the Patient Records and Mass Anonymization  *)
(* tabs                                                                    *)
(***************************************************************************)
\* Largest number of times a stored diagnosis is let be encrypted over
MaxLayers == 2

RECURSIVE Layers(_)
Layers(d) ==
  IF IsFernetToken(FERNET_KEY, d) THEN 1 + Layers(SubSeq(d, 3, Len(d))) ELSE 0

\* The session when a handler of admin_page has ended with st.rerun() and
\* the page has been drawn again
AdminRerun(sess, tbl) == RowActions(AdminEnter(sess), tbl)

\* "Add New Patient" clicked (line 97)
AdminShowAdd ==
  /\ Guard(session, s_admin) = "granted"
  /\ session' = RowActions(Put(AdminEnter(session), "show_add_form", TRUE), patients)
  /\ out' = PageOut("admin_page", "show_add")
  /\ UNCHANGED <<FERNET_KEY, ENV_FILE, users, cu, logs, auditUp, patients, gdpr, now>>

\* "Cancel" clicked in the add form (lines 134-137)
AdminAddCancel ==
  /\ Guard(session, s_admin) = "granted"
  /\ Get(session, "show_add_form", FALSE)
  /\ session' = AdminRerun(Put(AdminEnter(session), "show_add_form", FALSE), patients)
  /\ out' = PageOut("admin_page", "add_cancel")
  /\ UNCHANGED <<FERNET_KEY, ENV_FILE, users, cu, logs, auditUp, patients, gdpr, now>>

\* "Save Patient" clicked in the add form (lines 139-183)
AdminAddSave(name, contact, diagnosis) ==
  /\ Guard(session, s_admin) = "granted"
  /\ Get(session, "show_add_form", FALSE)
  /\ IF validate_patient_input(name, contact, diagnosis)
     THEN /\ session' = AdminEnter(session)
          /\ out' = PageOut("admin_page", "add_invalid")
          /\ UNCHANGED <<FERNET_KEY, ENV_FILE, patients, logs>>
     ELSE /\ patients.seq < MaxPatientId
          /\ CanLog
          /\ \E anonymized \in {anonymize_patient_record(name, contact, diagnosis)} :
             \E tbl \in {InsertPatient(patients, name, contact,
                                       anonymized.encrypted_diagnosis,
                                       anonymized.anonymized_name,
                                       anonymized.anonymized_contact,
                                       DateTimeStr(now))} :
               /\ patients' = tbl
               /\ session' = AdminRerun(Put(AdminEnter(session), "show_add_form", FALSE),
                                        tbl)
          /\ logs' = log_action(logs, auditUp, now, session["user_id"], s_admin,
                                s_add, <<"Added patient ">> \o name)
          /\ out' = PageOut("admin_page", "add")
  /\ UNCHANGED <<FERNET_KEY, ENV_FILE, users, cu, auditUp, gdpr, now>>

\* "Decrypt Diagnosis" clicked for the selected row (lines 202-215)
AdminDecrypt(selected_id) ==
  /\ Guard(session, s_admin) = "granted"
  /\ get_patient_by_id(patients, selected_id) # <<>>
  /\ \E decrypted \in {decrypt_data(get_patient_by_id(patients, selected_id)[1].diagnosis)} :
       IF ~decrypted.ok
       THEN /\ session' = AdminEnter(session)
            /\ logs' = logs
            /\ out' = PageOut("admin_page", "decrypt_error")
       ELSE /\ CanLog
            /\ logs' = log_action(logs, auditUp, now, session["user_id"], s_admin,
                                  s_view, <<"Decrypted diagnosis for patient ">>
                                            \o IntToStr(selected_id))
            /\ session' = RowActions(AdminEnter(session), patients)
            /\ out' = PageOut("admin_page", "decrypt")
  /\ UNCHANGED <<FERNET_KEY, ENV_FILE, users, cu, auditUp, patients, gdpr, now>>

\* "Update Patient" clicked for the selected row (lines 221-222)
AdminUpdateSelect(selected_id) ==
  /\ Guard(session, s_admin) = "granted"
  /\ get_patient_by_id(patients, selected_id) # <<>>
  /\ session' = Put(AdminEnter(session), "update_id", selected_id)
  /\ out' = PageOut("admin_page", "update_select")
  /\ UNCHANGED <<FERNET_KEY, ENV_FILE, users, cu, logs, auditUp, patients, gdpr, now>>

\* "Delete Patient" clicked for the selected row (lines 228-241)
AdminDelete(selected_id) ==
  /\ Guard(session, s_admin) = "granted"
  /\ get_patient_by_id(patients, selected_id) # <<>>
  /\ CanLog
  /\ \E tbl \in {delete_patient(patients, selected_id)} :
       /\ patients' = tbl
       /\ session' = AdminRerun(Pop(AdminEnter(session), "update_id"), tbl)
  /\ logs' = log_action(logs, auditUp, now, session["user_id"], s_admin, s_delete,
                        <<"Deleted patient ">> \o IntToStr(selected_id))
  /\ out' = PageOut("admin_page", "delete")
  /\ UNCHANGED <<FERNET_KEY, ENV_FILE, users, cu, auditUp, gdpr, now>>

\* "Cancel" clicked in the update form (lines 279-282)
AdminUpdateCancel ==
  /\ Guard(session, s_admin) = "granted"
  /\ get_all_patients(patients) # <<>>
  /\ UpdateForm(session, patients).state = "shown"
  /\ session' = AdminRerun(Pop(AdminEnter(session), "update_id"), patients)
  /\ out' = PageOut("admin_page", "update_cancel")
  /\ UNCHANGED <<FERNET_KEY, ENV_FILE, users, cu, logs, auditUp, patients, gdpr, now>>

\* "Save Changes" clicked in the update form (lines 284-355); an input of
\* None is a field left as the form showed it
AdminUpdateSave(name_in, contact_in, diagnosis_in) ==
  /\ Guard(session, s_admin) = "granted"
  /\ get_all_patients(patients) # <<>>
  /\ UpdateForm(session, patients).state = "shown"
  /\ \E f \in {UpdateForm(session, patients)} :
     LET new_name      == IF name_in = None THEN f.current_name ELSE name_in
         new_contact   == IF contact_in = None THEN f.current_contact ELSE contact_in
         new_diagnosis == IF diagnosis_in = None THEN f.current_diag ELSE diagnosis_in
         invalid == \/ new_name # f.current_name /\ validate_name(new_name)
                    \/ new_contact # f.current_contact /\ validate_contact(new_contact)
                    \/ new_diagnosis # f.current_diag /\ validate_diagnosis(new_diagnosis)
         unchanged == /\ new_name = f.current_name
                      /\ new_contact = f.current_contact
                      /\ new_diagnosis = f.current_diag
     IN  IF invalid \/ unchanged
         THEN /\ session' = AdminEnter(session)
              /\ out' = PageOut("admin_page", "update_stopped")
              /\ UNCHANGED <<FERNET_KEY, ENV_FILE, patients, logs>>
         ELSE /\ CanLog
              /\ \E anon \in {anonymize_patient_record(new_name, new_contact,
                                                       new_diagnosis)} :
                 \E tbl \in {update_patient(patients, f.pid, new_name, new_contact,
                                            anon.encrypted_diagnosis,
                                            anon.anonymized_name,
                                            anon.anonymized_contact)} :
                   /\ patients' = tbl
                   /\ session' = AdminRerun(Pop(AdminEnter(session), "update_id"), tbl)
              /\ logs' = log_action(logs, auditUp, now, session["user_id"], s_admin,
                                    s_update, <<"Updated patient ">> \o IntToStr(f.pid))
              /\ out' = PageOut("admin_page", "update")
  /\ UNCHANGED <<FERNET_KEY, ENV_FILE, users, cu, auditUp, gdpr, now>>

\* "Mask All Names & Contacts" clicked on the Mass Anonymization tab (lines
\* 371-377), which the script reaches only past the Patient Records tab
AdminMassAnonymize ==
  /\ Guard(session, s_admin) = "granted"
  /\ get_all_patients(patients) # <<>>
  /\ UpdateForm(session, patients).state \in {"absent", "shown"}
  /\ \A i \in 1..Len(patients.rows) : Layers(patients.rows[i].diagnosis) < MaxLayers
  /\ CanLog
  /\ patients' = anonymize_all_patients(patients)
  /\ logs' = log_action(logs, auditUp, now, Get(session, "user_id", NULL), s_admin,
                        s_anonymization,
                        <<"Mass anonymization ran; ">>
                          \o IntToStr(Len(patients.rows)) \o <<" rows updated">>)
  /\ session' = AdminEnter(session)
  /\ out' = PageOut("admin_page", "mass_anonymize")
  /\ UNCHANGED <<FERNET_KEY, ENV_FILE, users, cu, auditUp, gdpr, now>>

(***************************************************************************)
(* The application in front of its users: the login page and the three     *)
(* dashboards opened in one browser session, in any order                  *)
(***************************************************************************)
s_Ann == <<"A", "n", "n">>

s_Eve == <<"E", "v", "e">>

s_5551234 == <<"5", "5", "5", "1", "2", "3", "4">>

s_555 == <<"5", "5", "5">>

s_5559876 == <<"5", "5", "5", "9", "8", "7", "6">>

s_fever == <<"f", "e", "v", "e", "r">>

s_asthma == <<"a", "s", "t", "h", "m", "a">>

s_flu == <<"f", "l", "u">>

\* What is typed into the login form: each account's own password, a wrong
\* password or another account's password for a known username, and a
\* username nobody has
LoginInputs ==
  { <<s_admin, s_admin123>>, <<s_DrBob, s_doc123>>, <<s_Alice, s_rec123>>,
    <<s_admin, s_wrong>>, <<s_DrBob, s_admin123>>, <<s_mallory, s_admin123>> }

\* The table after one intake at the receptionist's desk
OnePatient ==
  LET anon == anonymize_patient_record(s_Ann, s_5551234, s_fever)
  IN  InsertPatient(EmptyPatients, s_Ann, s_5551234, anon.encrypted_diagnosis,
                    anon.anonymized_name, anon.anonymized_contact, DateStr(0))

Init ==
  /\ FERNET_KEY = s_key_1
  /\ ENV_FILE = s_key_1
  /\ users = seed_users
  /\ cu = [c \in Callers |-> IdleCall]
  /\ session = EmptySession
  /\ logs = <<>>
  /\ auditUp \in BOOLEAN
  /\ patients \in {EmptyPatients, OnePatient}
  /\ gdpr = <<>>
  /\ now = 0
  /\ out = [op |-> "none"]

Next ==
  \/ LoginOpen
  \/ LoginConsent
  \/ \E l \in LoginInputs : LoginSubmit(l[1], l[2])
  \/ \E page \in Pages : Denied(page, RequiredRole(page))
  \/ \E page \in Pages : Logout(page)
  \/ AdminRender
  \/ DoctorRender
  \/ ReceptionistRender

\* Logging in and out and opening the dashboards, with the audit storage
\* either writable or not
Spec == Init /\ [][Next]_vars

(***************************************************************************)
(* The patient records under the admin's and the receptionist's hands      *)
(***************************************************************************)
NameInputs == {s_Ann, s_Eve}

ContactInputs == {s_5551234, s_5559876, s_555}

DiagnosisInputs == {s_fever, s_flu}

StaffLogins == {<<s_admin, s_admin123>>, <<s_Alice, s_rec123>>}

PatientIds == 1..MaxPatientId

PatientsInit ==
  /\ FERNET_KEY = s_key_1
  /\ ENV_FILE = s_key_1
  /\ users = seed_users
  /\ cu = [c \in Callers |-> IdleCall]
  /\ session = EmptySession
  /\ logs = <<>>
  /\ auditUp \in BOOLEAN
  /\ patients = EmptyPatients
  /\ gdpr = <<>>
  /\ now = 0
  /\ out = [op |-> "none"]

PatientsNext ==
  \/ LoginConsent
  \/ \E l \in StaffLogins : LoginSubmit(l[1], l[2])
  \/ \E page \in {"admin_page", "receptionist_page"} : Logout(page)
  \/ AdminRender
  \/ AdminShowAdd
  \/ AdminAddCancel
  \/ \E n \in NameInputs, c \in ContactInputs, d \in DiagnosisInputs :
       AdminAddSave(n, c, d)
  \/ \E id \in PatientIds : AdminDecrypt(id)
  \/ \E id \in PatientIds : AdminUpdateSelect(id)
  \/ \E id \in PatientIds : AdminDelete(id)
  \/ AdminUpdateCancel
  \/ \E n \in NameInputs \cup {None}, c \in ContactInputs \cup {None},
        d \in DiagnosisInputs \cup {None} : AdminUpdateSave(n, c, d)
  \/ AdminMassAnonymize
  \/ ReceptionistRender
  \/ \E n \in NameInputs, c \in ContactInputs, d \in DiagnosisInputs :
       ReceptionistAdd(n, c, d)
  \/ \E id \in PatientIds, n \in NameInputs \cup {<<>>},
        c \in ContactInputs \cup {<<>>}, d \in DiagnosisInputs \cup {<<>>} :
       ReceptionistEdit(id, n, c, d)

\* Intake, edits, deletion and mass anonymization by logged-in staff, with
\* the audit storage either writable or not
SpecPatients == PatientsInit /\ [][PatientsNext]_vars

(***************************************************************************)
(* The account and retention functions of the core called directly, on a   *)
(* database that staff have used for some time, with a storage layer that  *)
(* may fail during a call                                                  *)
(***************************************************************************)
\* Largest number of rows the users table is let grow to
MaxUsers == 4

Day == 86400

\* As change_password, writing the new hash to every row
change_password_AllRows(tbl, user_id, new_password, salt, failed) ==
  IF failed THEN [users |-> tbl, raised |-> FALSE, ret |-> FALSE]
  ELSE [users  |-> [i \in 1..Len(tbl) |->
                      [tbl[i] EXCEPT !.password =
                         _hash_password(new_password, PBKDF2_ITERATIONS, salt)]],
        raised |-> FALSE,
        ret    |-> Cardinality({i \in 1..Len(tbl) : tbl[i].user_id = user_id}) = 1]

\* change_password(user_id, new_password), core/auth.py lines 149-163: the
\* users table afterwards and the value returned.  failed: the storage
\* raises during the call, which the except clause turns into False.
change_password(tbl, user_id, new_password, salt, failed) ==
  IF failed THEN [users |-> tbl, raised |-> FALSE, ret |-> FALSE]
  ELSE [users  |-> [i \in 1..Len(tbl) |->
                      IF tbl[i].user_id = user_id
                      THEN [tbl[i] EXCEPT !.password =
                              _hash_password(new_password, PBKDF2_ITERATIONS, salt)]
                      ELSE tbl[i]],
        raised |-> FALSE,
        ret    |-> Cardinality({i \in 1..Len(tbl) : tbl[i].user_id = user_id}) = 1]

\* create_user(username, password, role), core/auth.py lines 61-93, as one
\* call: the users table afterwards, the exception raised ("" for none) and
\* the dict returned.  failed: the storage raises during the call; the
\* function has a finally clause and no except clause.
create_user_call(tbl, username, password, role_arg, salt, failed) ==
  LET role == NormalizeRole(role_arg)
      r    == InsertUser(tbl, username,
                         _hash_password(password, PBKDF2_ITERATIONS, salt), role)
  IN  IF role \notin ALLOWED_ROLES
      THEN [users |-> tbl, raised |-> "ValueError", ret |-> <<>>]
      ELSE IF failed
      THEN [users |-> tbl, raised |-> "sqlite3.Error", ret |-> <<>>]
      ELSE IF SelectUser(tbl, username) # <<>>
      THEN [users |-> tbl, raised |-> "ValueError", ret |-> <<>>]
      ELSE [users |-> r.val, raised |-> "",
            ret |-> <<[user_id |-> Len(r.val), username |-> username,
                       role |-> role]>>]

CreateUser(username, password, role_arg, salt, failed) ==
  /\ \E r \in {create_user_call(users, username, password, role_arg, salt, failed)} :
       /\ Len(r.users) <= MaxUsers
       /\ users' = r.users
       /\ out' = [op |-> "create_user", failed |-> failed, raised |-> r.raised,
                  ret |-> r.ret]
  /\ UNCHANGED <<FERNET_KEY, ENV_FILE, cu, session, logs, auditUp, patients, gdpr, now>>

ChangePassword(user_id, new_password, salt, failed) ==
  /\ \E r \in {change_password(users, user_id, new_password, salt, failed)} :
       /\ users' = r.users
       /\ out' = [op |-> "change_password", failed |-> failed, user_id |-> user_id,
                  new_password |-> new_password,
                  raised |-> IF r.raised THEN "sqlite3.Error" ELSE "",
                  ret |-> r.ret]
  /\ UNCHANGED <<FERNET_KEY, ENV_FILE, cu, session, logs, auditUp, patients, gdpr, now>>

\* run_data_retention(user_id, role) called directly
RunRetention(user_id, role, fails) ==
  /\ \E r \in {run_data_retention(patients, gdpr, logs, auditUp, now, user_id, role,
                                  fails)} :
       /\ Len(r.logs) <= MaxLog
       /\ patients' = r.patients
       /\ gdpr' = r.gdpr
       /\ logs' = r.logs
       /\ out' = [op |-> "run_data_retention", failed |-> fails # "none",
                  raised |-> IF r.raised THEN "Error" ELSE "", ret |-> r.ret,
                  user_id |-> user_id, role |-> role]
  /\ UNCHANGED <<FERNET_KEY, ENV_FILE, users, cu, session, auditUp, now>>

\* pages/2_Dashboard_Admin.py, lines 567-589: what "Save Retention Policy"
\* does to the settings file, taken on its own: the settings loaded,
\* retention_days replaced and the file written
SaveRetention(new_retention) ==
  /\ gdpr' = save_gdpr_settings([load_gdpr_settings(gdpr).settings EXCEPT
                                   !.retention_days = new_retention])
  /\ out' = [op |-> "save_retention", new_retention |-> new_retention]
  /\ UNCHANGED <<FERNET_KEY, ENV_FILE, users, cu, session, logs, auditUp, patients, now>>

\* Three patients taken in on days 0, 1 and 2: by the admin form at
\* midnight, by the receptionist form (date only) and by the admin form at
\* noon
IntakeRow(tbl, name, contact, diagnosis, date_added) ==
  LET anon == anonymize_patient_record(name, contact, diagnosis)
  IN  InsertPatient(tbl, name, contact, anon.encrypted_diagnosis,
                    anon.anonymized_name, anon.anonymized_contact, date_added)

ThreePatients ==
  IntakeRow(IntakeRow(IntakeRow(EmptyPatients,
                                s_Ann, s_5551234, s_fever, DateTimeStr(0)),
                      s_Eve, s_5551234, s_asthma, DateStr(Day)),
            s_Ann, s_5551234, s_asthma, DateTimeStr(2 * Day + 43200))

\* The instants at which the calls are made
Instants == {2 * Day + 43200, 30 * Day + 43200, 31 * Day, 32 * Day + 43200, 1826 * Day}

RetentionChoices == {30, 60}

AccountNames == {s_mallory, s_admin}

AccountsInit ==
  /\ FERNET_KEY = s_key_1
  /\ ENV_FILE = s_key_1
  /\ users = seed_users
  /\ cu = [c \in Callers |-> IdleCall]
  /\ session = EmptySession
  /\ logs = <<>>
  /\ auditUp = TRUE
  /\ patients = ThreePatients
  /\ gdpr = <<>>
  /\ now \in Instants
  /\ out = [op |-> "none"]

AccountsNext ==
  \/ \E u \in AccountNames, r \in {s_doctor, s_nurse},
        salt \in SaltPool, failed \in BOOLEAN :
       CreateUser(u, s_pw1, r, salt, failed)
  \/ \E id \in {1, MaxUsers + 1}, p \in {s_pw1, s_admin123}, salt \in SaltPool, failed \in BOOLEAN :
       ChangePassword(id, p, salt, failed)
  \/ \E fails \in {"none", "database", "file"} : RunRetention(1, s_admin, fails)
  \/ \E d \in RetentionChoices : SaveRetention(d)

\* Accounts created, passwords changed and retention run and configured,
\* each call free to meet a storage failure
SpecAccounts == AccountsInit /\ [][AccountsNext]_vars

(***************************************************************************)
(* The functions that write audit entries called directly, while the logs  *)
(* table goes unwritable and writable again                                *)
(***************************************************************************)
\* log_action(user_id, role, action, details) called directly
Record(user_id, role, action, details) ==
  /\ CanLog
  /\ logs' = log_action(logs, auditUp, now, user_id, role, action, details)
  /\ out' = [op |-> "log_action", action |-> action, raised |-> ""]
  /\ UNCHANGED <<FERNET_KEY, ENV_FILE, users, cu, session, auditUp, patients, gdpr, now>>

\* Tags in and out of the vocabulary, in other case, padded, empty, absent
TagInputs ==
  { s_login,
    <<" ", "L", "o", "g", "i", "n", " ">>,
    <<"G", "D", "P", "R", "_", "D", "E", "L", "E", "T", "E">>,
    <<"l", "o", "g", " ", "i", "n">>,
    <<"h", "a", "c", "k">>,
    <<" ">>,
    <<>>,
    None }

RecordInit ==
  /\ FERNET_KEY = s_key_1
  /\ ENV_FILE = s_key_1
  /\ users = seed_users
  /\ cu = [c \in Callers |-> IdleCall]
  /\ session = EmptySession
  /\ logs = <<>>
  /\ auditUp = TRUE
  /\ patients = EmptyPatients
  /\ gdpr = <<>>
  /\ now = 0
  /\ out = [op |-> "none"]

RecordNext ==
  \/ \E id \in {NULL, 1}, a \in TagInputs : Record(id, s_system, a, <<>>)
  \/ AuditFail
  \/ AuditRecover

\* Entries recorded under any tag, with the audit storage failing and
\* recovering
SpecRecord == RecordInit /\ [][RecordNext]_vars

AuditInit ==
  /\ FERNET_KEY = s_key_1
  /\ ENV_FILE = s_key_1
  /\ users = seed_users
  /\ cu = [c \in Callers |-> IdleCall]
  /\ session = EmptySession
  /\ logs = <<>>
  /\ auditUp = TRUE
  /\ patients = ThreePatients
  /\ gdpr = <<>>
  /\ now \in {31 * Day, 1826 * Day}
  /\ out = [op |-> "none"]

AuditNext ==
  \/ \E l \in {<<s_admin, s_admin123>>, <<s_mallory, s_admin123>>} :
       Authenticate(l[1], l[2])
  \/ RunRetention(NULL, s_system, "none")
  \/ \E d \in RetentionChoices : SaveRetention(d)
  \/ Denied("func", s_admin)
  \/ AuditFail
  \/ AuditRecover

\* Logins checked, retention run and configured and a guarded function
\* called by nobody, with the audit storage failing and recovering
SpecAudit == AuditInit /\ [][AuditNext]_vars

(***************************************************************************)
(* The writers of the database in one history: the admin at the patients   *)
(* page, the account functions and the retention sweep, as time passes     *)
(***************************************************************************)
\* The moments of the history
Clock == {0, 31 * Day}

\* Time passing
Tick ==
  /\ \E t \in Clock : t > now /\ now' = t
  /\ UNCHANGED <<FERNET_KEY, ENV_FILE, users, cu, session, logs, auditUp, patients, gdpr, out>>

HistoryInit ==
  /\ FERNET_KEY = s_key_1
  /\ ENV_FILE = s_key_1
  /\ users = seed_users
  /\ cu = [c \in Callers |-> IdleCall]
  /\ session = EmptySession
  /\ logs = <<>>
  /\ auditUp = FALSE
  /\ patients = EmptyPatients
  /\ gdpr = <<>>
  /\ now = 0
  /\ out = [op |-> "none"]

HistoryNext ==
  \/ LoginConsent
  \/ LoginSubmit(s_admin, s_admin123)
  \/ AdminShowAdd
  \/ AdminAddSave(s_Ann, s_5551234, s_fever)
  \/ AdminUpdateSelect(1)
  \/ AdminUpdateSave(s_Eve, None, None)
  \/ \E id \in PatientIds : AdminDelete(id)
  \/ AdminMassAnonymize
  \/ CreateUser(s_mallory, s_pw1, s_doctor, Urandom(1), FALSE)
  \/ ChangePassword(2, s_pw1, Urandom(1), FALSE)
  \/ RunRetention(NULL, s_system, "none")
  \/ SaveRetention(30)
  \/ Tick
  \/ AuditRecover

\* The admin at the patients page, the account functions and the sweep over
\* a month, with the audit storage unwritable at first and then recovering
SpecHistory == HistoryInit /\ [][HistoryNext]_vars

(***************************************************************************)
(* The field cipher called directly, and the Diagnosis column of the       *)
(* doctor's table                                                          *)
(***************************************************************************)
MaxField == 3

\* Texts of up to MaxField characters over a letter, a digit and a space,
\* and two diagnoses
FieldInputs ==
  UNION {[1..n -> {"a", "1", " "}] : n \in 0..MaxField} \cup {s_fever, s_asthma}

\* A key another process generated
OTHER_KEY == "key-0"

\* A token after one of its bytes was changed: its signature verifies under
\* no key
Tampered(token) == [token EXCEPT ![2] = "no key"]

\* Values encrypt_data did not return under FERNET_KEY: typed text, tokens
\* of another key, tampered tokens and a token cut after its version marker
ForeignInputs ==
  FieldInputs
    \cup {FernetToken(OTHER_KEY, s) : s \in FieldInputs}
    \cup {Tampered(FernetToken(FERNET_KEY, s)) : s \in FieldInputs}
    \cup {<<"gAAAAA">>}

\* encrypt_data(plaintext) called
EncryptField(plaintext) ==
  /\ out' = [op |-> "encrypt_data", plaintext |-> plaintext,
             ret |-> encrypt_data(plaintext),
             fernet |-> encrypt_data_calls_fernet(plaintext)]
  /\ UNCHANGED <<FERNET_KEY, ENV_FILE, users, cu, session, logs, auditUp, patients, gdpr, now>>

\* decrypt_data called with what the encrypt_data call before it returned
DecryptReturned ==
  /\ out.op = "encrypt_data"
  /\ \E r \in {decrypt_data(out.ret)} :
       out' = [op |-> "decrypt_data", ciphertext |-> out.ret, produced |-> TRUE,
               plaintext |-> out.plaintext, raised |-> IF r.ok THEN "" ELSE r.val,
               ret |-> IF r.ok THEN r.val ELSE None,
               fernet |-> decrypt_data_calls_fernet(out.ret)]
  /\ UNCHANGED <<FERNET_KEY, ENV_FILE, users, cu, session, logs, auditUp, patients, gdpr, now>>

\* decrypt_data called with a value encrypt_data did not return
DecryptForeign(ciphertext) ==
  /\ \E r \in {decrypt_data(ciphertext)} :
       out' = [op |-> "decrypt_data", ciphertext |-> ciphertext, produced |-> FALSE,
               plaintext |-> None, raised |-> IF r.ok THEN "" ELSE r.val,
               ret |-> IF r.ok THEN r.val ELSE None,
               fernet |-> decrypt_data_calls_fernet(ciphertext)]
  /\ UNCHANGED <<FERNET_KEY, ENV_FILE, users, cu, session, logs, auditUp, patients, gdpr, now>>

\* pages/3_Dashboard_Doctor.py, lines 38-42: the cell of the Diagnosis
\* column for a row whose stored diagnosis is the argument
decrypt_diagnosis_column(diagnosis) ==
  LET r == decrypt_data(diagnosis)
  IN  IF r.ok THEN r.val ELSE <<"[Decryption error]">>

\* The doctor's table drawn for one row
DoctorCell(diagnosis) ==
  /\ out' = [op |-> "decrypt_diagnosis_column", ciphertext |-> diagnosis,
             cell |-> decrypt_diagnosis_column(diagnosis)]
  /\ UNCHANGED <<FERNET_KEY, ENV_FILE, users, cu, session, logs, auditUp, patients, gdpr, now>>

CipherInit ==
  /\ FERNET_KEY = s_key_1
  /\ ENV_FILE = s_key_1
  /\ users = seed_users
  /\ cu = [c \in Callers |-> IdleCall]
  /\ session = EmptySession
  /\ logs = <<>>
  /\ auditUp = TRUE
  /\ patients = EmptyPatients
  /\ gdpr = <<>>
  /\ now = 0
  /\ out = [op |-> "none"]

CipherNext ==
  \/ \E s \in FieldInputs \cup {None} : EncryptField(s)
  \/ DecryptReturned
  \/ \E c \in ForeignInputs : DecryptForeign(c)
  \/ \E c \in ForeignInputs \cup {encrypt_data(s) : s \in FieldInputs} :
       DoctorCell(c)

\* encrypt_data and decrypt_data called in any order with texts, None,
\* each other's results and values from elsewhere
SpecCipher == CipherInit /\ [][CipherNext]_vars

(***************************************************************************)
(* The masking functions called directly                                   *)
(***************************************************************************)
MaxContact == 5

s_0321_1234567 == <<"0", "3", "2", "1", "-", "1", "2", "3", "4", "5", "6", "7">>

s_plus92 == <<"+", "9", "2", " ", "3", "0", "0", " ", "1", "2", "3", "4">>

\* Contacts of up to MaxContact characters over two digits and a dash, the
\* contacts of the forms, two longer numbers with separators, and None
MaskInputs ==
  UNION {[1..n -> {"1", "2", "-"}] : n \in 0..MaxContact}
    \cup ContactInputs \cup {s_0321_1234567, s_plus92, None}

\* mask_contact(contact) called
MaskContact(contact) ==
  /\ out' = [op |-> "mask_contact", contact |-> contact,
             ret |-> mask_contact(contact)]
  /\ UNCHANGED <<FERNET_KEY, ENV_FILE, users, cu, session, logs, auditUp, patients, gdpr, now>>

\* mask_name(name) called
MaskName(name) ==
  /\ out' = [op |-> "mask_name", name |-> name, ret |-> mask_name(name)]
  /\ UNCHANGED <<FERNET_KEY, ENV_FILE, users, cu, session, logs, auditUp, patients, gdpr, now>>

MaskInit ==
  /\ FERNET_KEY = s_key_1
  /\ ENV_FILE = s_key_1
  /\ users = seed_users
  /\ cu = [c \in Callers |-> IdleCall]
  /\ session = EmptySession
  /\ logs = <<>>
  /\ auditUp = TRUE
  /\ patients = EmptyPatients
  /\ gdpr = <<>>
  /\ now = 0
  /\ out = [op |-> "none"]

MaskNext ==
  \/ \E c \in MaskInputs : MaskContact(c)
  \/ \E n \in NameInputs \cup {<<>>, None} : MaskName(n)

\* The two masking functions called with any contact and any name
SpecMask == MaskInit /\ [][MaskNext]_vars

(***************************************************************************)
(* The retention sweep and the retention setting over time: sweeps by the  *)
(* landing page and by the admin, each free to meet a storage failure,     *)
(* with the audit storage failing and recovering                           *)
(***************************************************************************)
\* As AdminSaveRetention, writing fresh settings around the new period
AdminSaveRetention_Resets(new_retention) ==
  /\ Guard(session, s_admin) = "granted"
  /\ get_all_patients(patients) # <<>>
  /\ UpdateForm(session, patients).state \in {"absent", "shown"}
  /\ gdpr' = save_gdpr_settings([DefaultSettings EXCEPT
                                   !.retention_days = new_retention])
  /\ session' = AdminEnter(session)
  /\ out' = [op |-> "admin_page", required |-> s_admin, guard |-> "granted",
             body |-> TRUE, click |-> "save_retention",
             new_retention |-> new_retention]
  /\ UNCHANGED <<FERNET_KEY, ENV_FILE, users, cu, logs, auditUp, patients, now>>

\* "Save Retention Policy" clicked on the Data Retention Policy tab (lines
\* 567-589), which the script reaches only past the Patient Records tab
AdminSaveRetention(new_retention) ==
  /\ Guard(session, s_admin) = "granted"
  /\ get_all_patients(patients) # <<>>
  /\ UpdateForm(session, patients).state \in {"absent", "shown"}
  /\ gdpr' = save_gdpr_settings([load_gdpr_settings(gdpr).settings EXCEPT
                                   !.retention_days = new_retention])
  /\ session' = AdminEnter(session)
  /\ out' = [op |-> "admin_page", required |-> s_admin, guard |-> "granted",
             body |-> TRUE, click |-> "save_retention",
             new_retention |-> new_retention]
  /\ UNCHANGED <<FERNET_KEY, ENV_FILE, users, cu, logs, auditUp, patients, now>>

\* "Run Data Retention Now" clicked on the same tab (lines 591-594)
AdminRunRetention ==
  /\ Guard(session, s_admin) = "granted"
  /\ get_all_patients(patients) # <<>>
  /\ UpdateForm(session, patients).state \in {"absent", "shown"}
  /\ \E r \in {run_data_retention(patients, gdpr, logs, auditUp, now,
                                  Get(session, "user_id", NULL), s_admin, "none")} :
       /\ Len(r.logs) <= MaxLog
       /\ patients' = r.patients
       /\ gdpr' = r.gdpr
       /\ logs' = r.logs
       /\ out' = [op |-> "run_data_retention", failed |-> FALSE, raised |-> "",
                  ret |-> r.ret, user_id |-> Get(session, "user_id", NULL),
                  role |-> s_admin]
  /\ session' = AdminEnter(session)
  /\ UNCHANGED <<FERNET_KEY, ENV_FILE, users, cu, auditUp, now>>

\* Time passing from one of the instants to a later one
TimePasses ==
  /\ \E t \in Instants : t > now /\ now' = t
  /\ UNCHANGED <<FERNET_KEY, ENV_FILE, users, cu, session, logs, auditUp, patients, gdpr, out>>

SweepInit ==
  /\ FERNET_KEY = s_key_1
  /\ ENV_FILE = s_key_1
  /\ users = seed_users
  /\ cu = [c \in Callers |-> IdleCall]
  /\ session = EmptySession
  /\ logs = <<>>
  /\ auditUp = TRUE
  /\ patients = ThreePatients
  /\ gdpr = <<>>
  /\ now \in Instants
  /\ out = [op |-> "none"]

SweepNext ==
  \/ \E fails \in {"none", "database", "file"} :
       \/ RunRetention(NULL, s_system, fails)
       \/ RunRetention(1, s_admin, fails)
       \/ RunRetention(NULL, None, fails)
  \/ \E d \in RetentionChoices : SaveRetention(d)
  \/ LoginConsent
  \/ LoginSubmit(s_admin, s_admin123)
  \/ \E d \in RetentionChoices : AdminSaveRetention(d)
  \/ AdminRunRetention
  \/ TimePasses
  \/ AuditFail
  \/ AuditRecover

SpecSweep == SweepInit /\ [][SweepNext]_vars

(***************************************************************************)
(* run_data_retention, core/gdpr.py, one storage access at a time: calls   *)
(* made by script runs of different sessions, which Streamlit runs in      *)
(* threads of one process with nothing in gdpr.py to keep them apart       *)
(***************************************************************************)
\* Line 30: the settings loaded (the file created when absent); lines
\* 31-33: the cutoff computed from the clock
SweepLoad(c, user_id, role) ==
  /\ cu[c].pc \in {"idle", "done"}
  /\ \E loaded \in {load_gdpr_settings(gdpr)} :
       /\ gdpr' = loaded.file
       /\ cu' = [cu EXCEPT ![c] =
                   [pc |-> "delete", user_id |-> user_id, role |-> role,
                    settings |-> loaded.settings,
                    cutoff_str |-> CutoffStr(now, loaded.settings.retention_days),
                    deleted_now |-> 0, ret |-> <<>>]]
  /\ out' = [op |-> "run_data_retention", caller |-> c, line |-> 30]
  /\ UNCHANGED <<FERNET_KEY, ENV_FILE, users, session, logs, auditUp, patients, now>>

\* Lines 36-41: the DELETE, committed
SweepDelete(c) ==
  /\ cu[c].pc = "delete"
  /\ \E swept \in {DeleteOld(patients, cu[c].cutoff_str)} :
       /\ patients' = swept
       /\ cu' = [cu EXCEPT ![c].pc = "save",
                            ![c].deleted_now = Len(patients.rows) - Len(swept.rows)]
  /\ out' = [op |-> "run_data_retention", caller |-> c, line |-> 38]
  /\ UNCHANGED <<FERNET_KEY, ENV_FILE, users, session, logs, auditUp, gdpr, now>>

\* Lines 44-47: the counters of the settings loaded at line 30 updated and
\* the file written
SweepSave(c) ==
  /\ cu[c].pc = "save"
  /\ \E settings \in {[cu[c].settings EXCEPT
                          !.last_deleted_count = cu[c].deleted_now,
                          !.total_deleted_count = @ + cu[c].deleted_now,
                          !.last_run = DateTimeStr(now)]} :
       /\ gdpr' = save_gdpr_settings(settings)
       /\ cu' = [cu EXCEPT ![c].pc = "log", ![c].settings = settings]
  /\ out' = [op |-> "run_data_retention", caller |-> c, line |-> 47]
  /\ UNCHANGED <<FERNET_KEY, ENV_FILE, users, session, logs, auditUp, patients, now>>

\* Lines 51-60: the audit entry when rows were deleted, and the return
SweepReturn(c) ==
  /\ cu[c].pc = "log"
  /\ logs' = IF cu[c].deleted_now > 0
             THEN log_action(logs, auditUp, now, cu[c].user_id,
                             IF cu[c].role = None THEN s_system ELSE cu[c].role,
                             s_gdpr_delete,
                             <<"Deleted ">> \o IntToStr(cu[c].deleted_now)
                               \o <<" patient records older than ">>
                               \o IntToStr(cu[c].settings.retention_days)
                               \o <<" days.">>)
             ELSE logs
  /\ cu' = [cu EXCEPT ![c].pc = "done",
                       ![c].ret = <<cu[c].deleted_now,
                                    cu[c].settings.total_deleted_count,
                                    cu[c].settings.retention_days>>]
  /\ out' = [op |-> "run_data_retention", caller |-> c, line |-> 60]
  /\ UNCHANGED <<FERNET_KEY, ENV_FILE, users, session, auditUp, patients, gdpr, now>>

RaceInit ==
  /\ FERNET_KEY = s_key_1
  /\ ENV_FILE = s_key_1
  /\ users = seed_users
  /\ cu = [c \in Callers |-> IdleCall]
  /\ session = EmptySession
  /\ logs = <<>>
  /\ auditUp = TRUE
  /\ patients = ThreePatients
  /\ gdpr = <<>>
  /\ now \in Instants
  /\ out = [op |-> "none"]

RaceNext ==
  \/ \E c \in Callers : SweepLoad(c, NULL, s_system)
  \/ \E c \in Callers : SweepDelete(c)
  \/ \E c \in Callers : SweepSave(c)
  \/ \E c \in Callers : SweepReturn(c)
  \/ SaveRetention(30)

\* The landing page opened by two sessions, each running the sweep, while
\* the retention period is set to 30 days
SpecRace == RaceInit /\ [][RaceNext]_vars

(***************************************************************************)
(* The application process started and restarted: core/encryption.py is    *)
(* imported anew, and the session state of the process before is gone      *)
(***************************************************************************)
MaxKeys == 3

KeyPool == <<"key-1", "key-2", "key-3", "key-4">>

\* The keys some stored diagnosis was encrypted under
KeysOfRows(tbl) ==
  {tbl.rows[i].diagnosis[2] :
     i \in {j \in 1..Len(tbl.rows) : Len(tbl.rows[j].diagnosis) >= 2}}

\* Fernet.generate_key(): 32 random bytes, a key not seen before
FreshKeys(used) ==
  {KeyPool[i] : i \in {j \in 1..MaxKeys :
                         /\ KeyPool[j] \notin used
                         /\ \A k \in 1..(j - 1) : KeyPool[k] \in used}}

\* Lines 40-41 at import
ProcessStart(save_fails) ==
  /\ \E key \in FreshKeys({FERNET_KEY, ENV_FILE} \cup KeysOfRows(patients)) :
     \E r \in {load_or_create_fernet_key(ENV_FILE, key, save_fails)} :
       /\ FERNET_KEY' = r.key
       /\ ENV_FILE' = r.file
       /\ out' = [op |-> "load_or_create_fernet_key", generated |-> r.generated,
                  save_fails |-> save_fails, ret |-> r.key]
  /\ session' = EmptySession
  /\ UNCHANGED <<users, cu, logs, auditUp, patients, gdpr, now>>

\* The doctor's table drawn for a stored row
DoctorRow(i) ==
  /\ FERNET_KEY # ""
  /\ i \in 1..Len(patients.rows)
  /\ out' = [op |-> "decrypt_diagnosis_column",
             ciphertext |-> patients.rows[i].diagnosis,
             cell |-> decrypt_diagnosis_column(patients.rows[i].diagnosis)]
  /\ UNCHANGED <<FERNET_KEY, ENV_FILE, users, cu, session, logs, auditUp, patients, gdpr, now>>

KeyInit ==
  /\ FERNET_KEY = ""
  /\ ENV_FILE = ""
  /\ users = seed_users
  /\ cu = [c \in Callers |-> IdleCall]
  /\ session = EmptySession
  /\ logs = <<>>
  /\ auditUp = FALSE
  /\ patients = EmptyPatients
  /\ gdpr = <<>>
  /\ now = 0
  /\ out = [op |-> "none"]

KeyNext ==
  \/ \E save_fails \in BOOLEAN : ProcessStart(save_fails)
  \/ FERNET_KEY # "" /\ LoginConsent
  \/ FERNET_KEY # "" /\ \E l \in StaffLogins : LoginSubmit(l[1], l[2])
  \/ FERNET_KEY # "" /\ ReceptionistAdd(s_Ann, s_5551234, s_fever)
  \/ FERNET_KEY # "" /\ AdminShowAdd
  \/ FERNET_KEY # "" /\ AdminAddSave(s_Eve, s_5551234, s_asthma)
  \/ \E i \in PatientIds : DoctorRow(i)

\* A machine without .env on which the application is started, used for
\* intake and restarted, the audit storage being down throughout
SpecKey == KeyInit /\ [][KeyNext]_vars

(***************************************************************************)
(* "Save Changes" of the admin's update form taken in two steps, the read  *)
(* of the row and the UPDATE, with other sessions' script runs between     *)
(***************************************************************************)
\* Lines 246-321: the row read, the form's values compared and validated,
\* the masks and the cipher text computed
AdminUpdateRead(name_in, contact_in, diagnosis_in) ==
  /\ cu["c1"].pc = "idle"
  /\ Guard(session, s_admin) = "granted"
  /\ get_all_patients(patients) # <<>>
  /\ UpdateForm(session, patients).state = "shown"
  /\ \E f \in {UpdateForm(session, patients)} :
     LET new_name      == IF name_in = None THEN f.current_name ELSE name_in
         new_contact   == IF contact_in = None THEN f.current_contact ELSE contact_in
         new_diagnosis == IF diagnosis_in = None THEN f.current_diag ELSE diagnosis_in
         invalid == \/ new_name # f.current_name /\ validate_name(new_name)
                    \/ new_contact # f.current_contact /\ validate_contact(new_contact)
                    \/ new_diagnosis # f.current_diag /\ validate_diagnosis(new_diagnosis)
         unchanged == /\ new_name = f.current_name
                      /\ new_contact = f.current_contact
                      /\ new_diagnosis = f.current_diag
     IN  IF invalid \/ unchanged
         THEN /\ session' = AdminEnter(session)
              /\ out' = PageOut("admin_page", "update_stopped")
              /\ cu' = cu
         ELSE /\ \E anon \in {anonymize_patient_record(new_name, new_contact,
                                                       new_diagnosis)} :
                   cu' = [cu EXCEPT !["c1"] =
                            [pc |-> "update_patient", pid |-> f.pid,
                             name |-> new_name, contact |-> new_contact, anon |-> anon]]
              /\ session' = session
              /\ out' = [op |-> "admin_page", required |-> s_admin, guard |-> "granted",
                         body |-> TRUE, click |-> "update_read", line |-> 321]
  /\ UNCHANGED <<FERNET_KEY, ENV_FILE, users, logs, auditUp, patients, gdpr, now>>

\* Lines 324-355: update_patient on the table as it is now, the audit
\* entry, update_id popped, st.rerun()
AdminUpdateWrite ==
  /\ cu["c1"].pc = "update_patient"
  /\ CanLog
  /\ \E c \in {cu["c1"]} :
     \E tbl \in {update_patient(patients, c.pid, c.name, c.contact,
                                c.anon.encrypted_diagnosis, c.anon.anonymized_name,
                                c.anon.anonymized_contact)} :
       /\ patients' = tbl
       /\ session' = AdminRerun(Pop(AdminEnter(session), "update_id"), tbl)
       /\ logs' = log_action(logs, auditUp, now, session["user_id"], s_admin,
                             s_update, <<"Updated patient ">> \o IntToStr(c.pid))
       /\ out' = [op |-> "admin_page", required |-> s_admin, guard |-> "granted",
                  body |-> TRUE, click |-> "update", pid |-> c.pid]
  /\ cu' = [cu EXCEPT !["c1"] = IdleCall]
  /\ UNCHANGED <<FERNET_KEY, ENV_FILE, users, auditUp, gdpr, now>>

\* "Delete Patient" clicked (lines 228-238) in another browser session of
\* the admin
OtherAdminDelete(selected_id) ==
  /\ get_patient_by_id(patients, selected_id) # <<>>
  /\ CanLog
  /\ patients' = delete_patient(patients, selected_id)
  /\ logs' = log_action(logs, auditUp, now, 1, s_admin, s_delete,
                        <<"Deleted patient ">> \o IntToStr(selected_id))
  /\ out' = [op |-> "admin_page", required |-> s_admin, guard |-> "granted",
             body |-> TRUE, click |-> "delete", other |-> TRUE]
  /\ UNCHANGED <<FERNET_KEY, ENV_FILE, users, cu, session, auditUp, gdpr, now>>

\* The script run of this session is not between its read and its UPDATE
NoRunInFlight == cu["c1"].pc = "idle"

EditInit ==
  /\ FERNET_KEY = s_key_1
  /\ ENV_FILE = s_key_1
  /\ users = seed_users
  /\ cu = [c \in Callers |-> IdleCall]
  /\ session = EmptySession
  /\ logs = <<>>
  /\ auditUp = FALSE
  /\ patients = ThreePatients
  /\ gdpr = <<>>
  /\ now \in {31 * Day, 1826 * Day}
  /\ out = [op |-> "none"]

EditNext ==
  \/ NoRunInFlight /\ LoginConsent
  \/ NoRunInFlight /\ LoginSubmit(s_admin, s_admin123)
  \/ NoRunInFlight /\ \E id \in 1..3 : AdminUpdateSelect(id)
  \/ \E n \in {s_Eve, None}, d \in {s_asthma, s_flu, None} : AdminUpdateRead(n, None, d)
  \/ AdminUpdateWrite
  \/ \E id \in 1..3 : OtherAdminDelete(id)
  \/ RunRetention(NULL, s_system, "none")
  \/ SaveRetention(30)
  \/ AuditRecover

\* The admin editing one of three patients while another session of the
\* admin deletes rows and the landing page, opened by anyone, runs the
\* sweep; the audit storage is down at first
SpecEdit == EditInit /\ [][EditNext]_vars

(***************************************************************************)
(* A patient taken in at midday, by either form, and the sweeps of the     *)
(* weeks and years after                                                   *)
(***************************************************************************)
\* The moment of every intake of this specification: 12:00 on day 2
IntakeAt == 2 * Day + 43200

\* 01:00 and 12:00 of the day 30 days after the intake, and 01:00 of the
\* day 1825 days after it
IntakeClock == {IntakeAt, 32 * Day + 3600, 32 * Day + 43200, 1827 * Day + 3600}

LaterOn ==
  /\ \E t \in IntakeClock : t > now /\ now' = t
  /\ UNCHANGED <<FERNET_KEY, ENV_FILE, users, cu, session, logs, auditUp, patients, gdpr, out>>

IntakeInit ==
  /\ FERNET_KEY = s_key_1
  /\ ENV_FILE = s_key_1
  /\ users = seed_users
  /\ cu = [c \in Callers |-> IdleCall]
  /\ session = EmptySession
  /\ logs = <<>>
  /\ auditUp = FALSE
  /\ patients = EmptyPatients
  /\ gdpr = <<>>
  /\ now = IntakeAt
  /\ out = [op |-> "none"]

IntakeNext ==
  \/ LoginConsent
  \/ \E l \in StaffLogins : LoginSubmit(l[1], l[2])
  \/ now = IntakeAt /\ ReceptionistAdd(s_Ann, s_5551234, s_fever)
  \/ AdminShowAdd
  \/ now = IntakeAt /\ AdminAddSave(s_Eve, s_5559876, s_asthma)
  \/ SaveRetention(30)
  \/ RunRetention(NULL, s_system, "none")
  \/ LaterOn

SpecIntake == IntakeInit /\ [][IntakeNext]_vars

(***************************************************************************)
(* Properties of the credential store                                      *)
(***************************************************************************)
\* The (password, iterations, salt) triples the stored artifact of the
\* first user was produced from
ProducedFrom(stored) ==
  {t \in CredPasswords \X IterationChoices \X SaltPool :
     stored = _hash_password(t[1], t[2], t[3])}

\* C9: verifying a password against an artifact that _hash_password
\* produced from password p under any iteration count and salt answers
\* TRUE exactly when the supplied password is p, whatever the current
\* default iteration count is.
C9_VerifyRoundTrip ==
  out.op = "_verify_password" =>
    \A t \in ProducedFrom(users[1].password) :
      ~out.raised /\ (out.result <=> out.password = t[1])

C9_Witness ==
  /\ out.op = "_verify_password"
  /\ out.result
  /\ \E t \in ProducedFrom(users[1].password) : t[2] # PBKDF2_ITERATIONS

FieldCount(stored) == 1 + Cardinality({i \in 1..Len(stored) : stored[i] = "$"})

NotNumeric(f) == f = <<>> \/ \E i \in 1..Len(f) : f[i] \notin {HexChars[k] : k \in 1..10}

NotHex(f) ==
  \/ Len(f) % 2 = 1
  \/ \E i \in 1..Len(f) :
       f[i] \notin {HexChars[k] : k \in 1..16} \cup {"A", "B", "C", "D", "E", "F"}

Malformed(stored) ==
  \/ FieldCount(stored) # 3
  \/ LET f == Split(stored, "$")
     IN  NotNumeric(f[1]) \/ NotHex(f[2]) \/ NotHex(f[3])

\* C10: _verify_password never raises, it answers FALSE for every password
\* when the stored artifact is malformed, and authenticate_user on a user
\* holding a malformed artifact returns None instead of raising.
C10_VerifyNeverRaises ==
  /\ out.op = "_verify_password" =>
       ~out.raised /\ (Malformed(users[1].password) => ~out.result)
  /\ (out.op = "authenticate_user" /\ Malformed(users[1].password)) =>
       ~out.raised /\ out.user = <<>>

C10_Witness ==
  /\ out.op = "authenticate_user"
  /\ out.username = users[1].username
  /\ Malformed(users[1].password)
  /\ ~out.raised
  /\ out.user = <<>>

\* The calls that have returned a created user
Winners == {c \in Callers : cu[c].pc = "done" /\ cu[c].ret = "created"}

\* C7: no two rows of users carry the same (case-sensitive) username, of
\* the calls made for one username at most one returns a created user,
\* and no step changes or removes a row that is already stored.
C7_UsernamesUnique ==
  /\ [](/\ \A i, j \in 1..Len(users) :
             users[i].username = users[j].username => i = j
        /\ \A c, d \in Winners : cu[c].username = cu[d].username => c = d
        /\ \A c \in Winners :
             /\ cu[c].user_id \in 1..Len(users)
             /\ users[cu[c].user_id].username = cu[c].username)
  /\ [][/\ Len(users') >= Len(users)
        /\ \A i \in 1..Len(users) : users'[i] = users[i]]_vars

\* Two calls for one username both passed the existence check; one has
\* created the user and the other was refused by the INSERT
C7_Witness ==
  \E c, d \in Callers :
    /\ c # d
    /\ cu[c].pc = "done" /\ cu[c].ret = "created"
    /\ cu[d].pc = "done" /\ cu[d].ret = "IntegrityError"
    /\ cu[c].username = cu[d].username
    /\ Len(users) = 1

Returned(c) == cu[c].pc = "done"

\* C8 as stated: a call is accepted exactly when the lowercase form of its
\* role argument is an allowed role, and then stores that lowercase form.
C8_RoleLowercaseOnly ==
  \A c \in Callers :
    Returned(c) =>
      /\ Lower(cu[c].role_arg) \notin ALLOWED_ROLES
           => cu[c].ret = "ValueError: Invalid role"
      /\ cu[c].ret = "created"
           => users[cu[c].user_id].role = Lower(cu[c].role_arg)

\* C8, amended: every stored role is one of admin, doctor, receptionist in
\* lowercase; create_user fails with the invalid-role error, adding no
\* user, exactly when the lowercase form of its role argument with the
\* surrounding whitespace removed is not one of them, and a created user
\* stores that lowercase, trimmed form.
C8_RoleNormalized ==
  /\ [](/\ \A i \in 1..Len(users) :
             users[i].role \in {s_admin, s_doctor, s_receptionist}
        /\ \A c \in Callers :
             Returned(c) =>
               /\ cu[c].ret = "ValueError: Invalid role"
                    <=> Strip(Lower(cu[c].role_arg)) \notin
                          {s_admin, s_doctor, s_receptionist}
               /\ cu[c].ret = "created"
                    => users[cu[c].user_id].role = Strip(Lower(cu[c].role_arg)))
  /\ [][\A c \in Callers :
          (~Returned(c) /\ Returned(c)' /\ cu'[c].ret = "ValueError: Invalid role")
            => users' = users]_vars

\* A role argument in mixed case with surrounding blanks was accepted and a
\* role argument outside the set was refused
C8_Witness ==
  \E c, d \in Callers :
    /\ Returned(c) /\ cu[c].ret = "created"
    /\ cu[c].role_arg = <<" ", "R", "e", "c", "e", "p", "t", "i", "o", "n", "i", "s", "t", " ">>
    /\ users[cu[c].user_id].role = s_receptionist
    /\ Returned(d) /\ cu[d].ret = "ValueError: Invalid role"
    /\ cu[d].role_arg = s_nurse

(***************************************************************************)
(* Properties of authentication and of the login page                      *)
(***************************************************************************)
\* A step in which authenticate_user was called directly
AuthenticateStep ==
  /\ <<logs, out>>' # <<logs, out>>
  /\ out'.op = "authenticate_user"

Contains(text, part) ==
  \E i \in 1..(Len(text) - Len(part) + 1) : SubSeq(text, i, i + Len(part) - 1) = part

\* The username is in the table and the password verifies against the
\* artifact stored with it
Verifies(username, password) ==
  /\ SelectUser(users, username) # <<>>
  /\ _verify_password(SelectUser(users, username)[1].password, password) = Ok(TRUE)

\* C5: authenticate_user returns the user exactly when the username exists
\* and the password verifies against the stored artifact, and every call
\* made while the audit storage is available appends exactly one entry
\* tagged "login": on success with the user's id and role and a detail
\* containing the username; on failure with the failure marker in the
\* detail and the real id and role when the username exists, a null id and
\* role "unknown" when it does not.
C5_AuthenticateAndLog ==
  [][AuthenticateStep =>
       LET rows == SelectUser(users, out'.username)
           e    == logs'[Len(logs')]
       IN  /\ ~out'.raised
           /\ out'.user # <<>> <=> Verifies(out'.username, out'.password)
           /\ out'.user # <<>> => out'.user = <<rows[1]>>
           /\ auditUp =>
                /\ Len(logs') = Len(logs) + 1
                /\ SubSeq(logs', 1, Len(logs)) = logs
                /\ e.action = s_login
                /\ IF Verifies(out'.username, out'.password)
                   THEN /\ e.user_id = rows[1].user_id
                        /\ e.role = rows[1].role
                        /\ Contains(e.details, out'.username)
                   ELSE /\ Head(e.details) = "LOGIN_FAILED username="
                        /\ e.user_id = IF rows # <<>> THEN rows[1].user_id ELSE NULL
                        /\ e.role = IF rows # <<>> THEN rows[1].role ELSE s_unknown]_vars

\* A success, a failure for a username nobody has and a failure with a
\* wrong password have each been logged
C5_Witness ==
  /\ out.op = "authenticate_user"
  /\ Len(logs) = 3
  /\ \E i \in 1..3 : logs[i].user_id = 1 /\ Head(logs[i].details) # "LOGIN_FAILED username="
  /\ \E i \in 1..3 : logs[i].user_id = NULL /\ logs[i].role = s_unknown
  /\ \E i \in 1..3 : logs[i].user_id = 1 /\ Head(logs[i].details) = "LOGIN_FAILED username="

\* Why a submission of the login form fails, if it does
FailureCause(username, password) ==
  IF get_user_by_username(users, username) = <<>> THEN "unknown username"
  ELSE IF ~Verifies(username, password) THEN "wrong password"
  ELSE "none"

\* What the person at the login form gets to see of a submission: the
\* value authenticate_user returned and the message on the page
Observable(username, password) ==
  LET a == authenticate_user(users, username, password)
  IN  <<a.user, LoginResult(a, LoginDefaults(session)).message>>

\* C6: in every state in which the login form is shown, a submission that
\* fails because the username is unknown and one that fails because the
\* password is wrong return the same value from authenticate_user and show
\* the same message, attempts-left count included; and the message a failed
\* submission showed is the one the attempt counter alone determines.
C6_NoExistenceOracle ==
  /\ FormShown(LoginDefaults(session)) =>
       \A a, b \in LoginInputs :
         (FailureCause(a[1], a[2]) = "unknown username"
            /\ FailureCause(b[1], b[2]) = "wrong password")
           => Observable(a[1], a[2]) = Observable(b[1], b[2])
  /\ (out.op = "login_page" /\ out.click = "submit" /\ ~out.ok) =>
       out.message =
         IF session["login_attempts"] = 0
         THEN <<"Maximum login attempts reached! Redirecting...">>
         ELSE <<"Invalid username or password. Attempts left: ">>
                \o IntToStr(3 - session["login_attempts"])

\* A submission with a username nobody has failed right after one with a
\* wrong password for an existing account
C6_Witness ==
  /\ out.op = "login_page" /\ out.click = "submit" /\ ~out.ok
  /\ get_user_by_username(users, out.username) = <<>>
  /\ session["login_attempts"] = 2
  /\ Len(logs) = 2
  /\ logs[1].user_id # NULL /\ Head(logs[1].details) = "LOGIN_FAILED username="
  /\ logs[2].user_id = NULL

(***************************************************************************)
(* Properties of the dashboards                                            *)
(***************************************************************************)
\* A step in which a dashboard was opened, nothing clicked, and the guard
\* let the session through
GrantedRender ==
  /\ <<session, logs, out>>' # <<session, logs, out>>
  /\ out'.op \in Pages
  /\ out'.guard = "granted"
  /\ out'.click = "none"

\* C4: with the audit storage available, each granted rendering of a
\* dashboard appends at least one audit entry that carries the session's
\* user id, whatever the page shows.
C4_GrantedRenderLogged ==
  [][(GrantedRender /\ auditUp) =>
       \E i \in (Len(logs) + 1)..Len(logs') :
         logs'[i].user_id = session["user_id"]]_vars

\* The admin dashboard was opened right after the admin logged in, and the
\* log holds the two entries of the login and nothing else
C4_Witness ==
  /\ out.op = "admin_page" /\ out.guard = "granted" /\ out.click = "none"
  /\ auditUp
  /\ Len(logs) = 2
  /\ logs[2].details = s_admin \o <<" logged in.">>

(***************************************************************************)
(* Properties of the patient records                                       *)
(***************************************************************************)
\* A value encrypt_data returned for some plaintext
IsCiphertext(d) ==
  /\ decrypt_data(d).ok
  /\ encrypt_data(decrypt_data(d).val) = d

\* C1: every stored patient's diagnosis is empty or a ciphertext produced
\* by encrypt_data, in every state reached by intake at either form, edits
\* by the admin or the receptionist, deletion and mass anonymization.
C1_DiagnosisEncryptedAtRest ==
  \A i \in 1..Len(patients.rows) :
    \/ patients.rows[i].diagnosis = <<>>
    \/ IsCiphertext(patients.rows[i].diagnosis)

\* Mass anonymization has just run over a stored patient
C1_Witness ==
  /\ out.op = "admin_page" /\ out.guard = "granted" /\ out.click = "mass_anonymize"
  /\ patients.rows # <<>>
  /\ \A i \in 1..Len(patients.rows) : Layers(patients.rows[i].diagnosis) = 2

(***************************************************************************)
(* Properties of the access guard                                          *)
(***************************************************************************)
HoldsUserAndRole(sess) ==
  /\ "user_id" \in DOMAIN sess /\ sess["user_id"] # NULL
  /\ "role" \in DOMAIN sess /\ sess["role"] # <<>>

\* C2: the wrapped function runs only in a session that holds a user id
\* and a role whose lowercase form is in the allowed set; without a user
\* id or a role the call is denied as NotAuthenticated, with a role that
\* is not allowed as InsufficientRole, and a denied call never runs the
\* function.
C2_GuardDecision ==
  out.op = "func" =>
    LET allowed == HoldsUserAndRole(session)
                     /\ Lower(session["role"]) = Lower(out.required)
    IN  /\ out.body <=> allowed
        /\ out.guard = "granted" <=> allowed
        /\ out.guard = "NotAuthenticated" <=> ~HoldsUserAndRole(session)
        /\ out.guard = "InsufficientRole" <=> (HoldsUserAndRole(session) /\ ~allowed)

\* The function ran for a session whose role is spelled in another case
\* than the required role
C2_Witness ==
  /\ out.op = "func"
  /\ out.body
  /\ session["role"] # out.required

\* A step in which wrapper() denied a call
DenialStep ==
  /\ <<logs, out>>' # <<logs, out>>
  /\ out'.op = "func"
  /\ out'.guard # "granted"

DenialEntryWritten ==
  /\ Len(logs') = Len(logs) + 1
  /\ SubSeq(logs', 1, Len(logs)) = logs
  /\ LET e == logs'[Len(logs')]
     IN  IF out'.guard = "NotAuthenticated"
         THEN e.user_id = NULL /\ e.role = s_unknown
         ELSE e.user_id = session["user_id"] /\ e.role = session["role"]

\* C3 as stated: every denial appends one audit entry.
C3_DenialAlwaysLogged == [][DenialStep => DenialEntryWritten]_vars

\* C3, amended: while the logs table can be written, every denial appends
\* exactly one audit entry: with a null actor and role "unknown" for
\* NotAuthenticated, with the session's user id and role for
\* InsufficientRole.
C3_DenialLogged == [][(DenialStep /\ auditUp) => DenialEntryWritten]_vars

\* Both kinds of denial have been logged: first a session with a role
\* that is not allowed, then the cleared session
C3_Witness ==
  /\ out.op = "func"
  /\ out.guard = "NotAuthenticated"
  /\ Len(logs) = 2
  /\ logs[1].user_id # NULL /\ logs[1].role \in ALLOWED_ROLES
  /\ logs[1].action = s_view
  /\ logs[2].user_id = NULL /\ logs[2].role = s_unknown
  /\ logs[2].action = s_login

(***************************************************************************)
(* Properties of the account functions                                     *)
(***************************************************************************)
Existing(tbl, user_id) == \E i \in 1..Len(tbl) : tbl[i].user_id = user_id

\* authenticate_user(username, password) returns the user
Succeeds(tbl, username, password) ==
  authenticate_user(tbl, username, password).user # <<>>

ProbePasswords == {s_pw1, s_admin123, s_doc123, s_rec123}

\* C11: a change_password call during which the storage works returns True
\* on an existing user id, after which authenticate_user succeeds for that
\* user with the new password and fails with every password that worked
\* before and differs from it, while the user's id, username and role,
\* every other user's row, the patients and the logs are as before; on an
\* id that no row has it returns False and the users table is as before.
C11_ChangePassword ==
  [][(out'.op = "change_password" /\ ~out'.failed) =>
       /\ patients' = patients
       /\ logs' = logs
       /\ Len(users') = Len(users)
       /\ IF Existing(users, out'.user_id)
          THEN /\ out'.ret = TRUE
               /\ \A i \in 1..Len(users) :
                    IF users[i].user_id = out'.user_id
                    THEN /\ users'[i].user_id = users[i].user_id
                         /\ users'[i].username = users[i].username
                         /\ users'[i].role = users[i].role
                         /\ Succeeds(users', users[i].username, out'.new_password)
                         /\ \A p \in ProbePasswords :
                              (Succeeds(users, users[i].username, p)
                                 /\ p # out'.new_password)
                                => ~Succeeds(users', users[i].username, p)
                    ELSE users'[i] = users[i]
          ELSE /\ out'.ret = FALSE
               /\ users' = users]_vars

\* The admin's password has been changed from admin123 to pw1
C11_Witness ==
  /\ out.op = "change_password" /\ ~out.failed /\ out.ret = TRUE
  /\ out.user_id = 1 /\ out.new_password = s_pw1
  /\ Succeeds(users, s_admin, s_pw1)
  /\ ~Succeeds(users, s_admin, s_admin123)
  /\ Succeeds(users, s_DrBob, s_doc123)

\* C12: a create_user, change_password or run_data_retention call during
\* which the storage fails ends in an exception, never in a returned value.
C12_StorageFailurePropagates ==
  (out.op \in {"create_user", "change_password", "run_data_retention"} /\ out.failed)
    => out.raised # ""

\* change_password has returned False from a call during which the storage
\* failed
C12_Witness ==
  /\ out.op = "change_password" /\ out.failed
  /\ out.raised = "" /\ out.ret = FALSE
  /\ Existing(users, out.user_id)

(***************************************************************************)
(* Properties of the retention sweep                                       *)
(***************************************************************************)
\* The moment a stored date_added names, a date alone being its midnight
Instant(date_added) ==
  date_added[1] * Day + (IF Len(date_added) = 2 THEN date_added[2] ELSE 0)

\* C20: a run_data_retention call that returns removes exactly the rows
\* whose date_added is at or before now minus retention_days days, leaves
\* the other rows as they are and in order, and returns as its first value
\* the number of rows removed.
C20_SweepDeletesExactlyOld ==
  [][(out'.op = "run_data_retention" /\ out'.raised = "") =>
       LET days     == load_gdpr_settings(gdpr).settings.retention_days
           Kept(row) == Instant(row.date_added) > now - days * Day
       IN  /\ patients'.rows = SelectSeq(patients.rows, Kept)
           /\ patients'.seq = patients.seq
           /\ out'.ret[1] = Len(patients.rows) - Len(patients'.rows)
           /\ out'.ret[3] = days]_vars

\* A sweep 30 days after the second intake's midnight has removed the row
\* dated exactly at the cutoff and the older row, and kept the row a day
\* and a half younger
C20_Witness ==
  /\ out.op = "run_data_retention" /\ out.raised = ""
  /\ now = 31 * Day /\ out.ret[3] = 30
  /\ out.ret[1] = 2
  /\ Len(patients.rows) = 1
  /\ patients.rows[1].patient_id = 3

(***************************************************************************)
(* Properties of the audit log                                             *)
(***************************************************************************)
\* A step of authenticate_user, run_data_retention or the access guard
AuditedStep ==
  /\ auditUp' = auditUp
  /\ out'.op \in {"authenticate_user", "run_data_retention", "func"}

\* C13: while the logs table cannot be written, authenticate_user,
\* run_data_retention and the access guard raise nothing on account of it
\* and append nothing; each returns what it returns, and leaves the users,
\* the patients and the retention settings as it leaves them, with the
\* table writable.
C13_AuditBestEffort ==
  [][AuditedStep =>
       /\ ~auditUp => logs' = logs
       /\ users' = users
       /\ out'.op = "authenticate_user" =>
            /\ ~out'.raised
            /\ out'.user = authenticate_user(users, out'.username, out'.password).user
            /\ patients' = patients
            /\ gdpr' = gdpr
       /\ out'.op = "run_data_retention" =>
            LET r == run_data_retention(patients, gdpr, logs, TRUE, now, out'.user_id,
                                        out'.role, "none")
            IN  /\ out'.raised = ""
                /\ out'.ret = r.ret
                /\ patients' = r.patients
                /\ gdpr' = r.gdpr
       /\ out'.op = "func" =>
            /\ out'.guard = Guard(session, out'.required)
            /\ ~out'.body
            /\ patients' = patients
            /\ gdpr' = gdpr]_vars

\* A sweep has removed rows, and returned their number, while the logs
\* table could not be written
C13_Witness ==
  /\ ~auditUp
  /\ out.op = "run_data_retention" /\ out.raised = ""
  /\ out.ret[1] = 2
  /\ Len(patients.rows) = 1
  /\ logs = <<>>

\* C14: every stored entry's action is in VALID_ACTIONS; a log_action call
\* stores the supplied tag lowercased and trimmed when that is in
\* VALID_ACTIONS and stores "other" for any other tag, the empty and the
\* absent one included, and never raises.
C14_ActionVocabulary ==
  [][out'.op = "log_action" =>
       /\ out'.raised = ""
       /\ \A i \in 1..Len(logs') : logs'[i].action \in VALID_ACTIONS
       /\ (auditUp /\ auditUp') =>
            /\ Len(logs') = Len(logs) + 1
            /\ LET tag  == IF out'.action = None THEN <<>> ELSE out'.action
                   form == Strip(Lower(tag))
               IN  logs'[Len(logs')].action =
                     IF form \in VALID_ACTIONS THEN form ELSE s_other]_vars

\* Entries stored from a padded capitalised tag, from an empty tag and
\* from a tag outside the vocabulary
C14_Witness ==
  /\ Len(logs) = 3
  /\ logs[1].action = s_login
  /\ logs[2].action = s_other
  /\ logs[3].action = s_gdpr_delete
  /\ out.op = "log_action"
  /\ out.action = <<"G", "D", "P", "R", "_", "D", "E", "L", "E", "T", "E">>

\* C15: the logs table only grows at its end: every entry of a state is,
\* in every later state, at the same place with the same user id, role,
\* action, timestamp and details.
C15_AppendOnly ==
  [][/\ Len(logs') >= Len(logs)
     /\ \A i \in 1..Len(logs) :
          /\ logs'[i].user_id = logs[i].user_id
          /\ logs'[i].role = logs[i].role
          /\ logs'[i].action = logs[i].action
          /\ logs'[i].timestamp = logs[i].timestamp
          /\ logs'[i].details = logs[i].details]_vars

\* The entries of an intake, of a mass anonymization and of the sweep that
\* deleted the patient a month later are all there after a password has
\* been changed
C15_Witness ==
  /\ Len(logs) = 3
  /\ logs[1].action = s_add /\ logs[1].timestamp = DateTimeStr(0)
  /\ logs[2].action = s_anonymization /\ logs[2].timestamp = DateTimeStr(0)
  /\ logs[3].action = s_gdpr_delete /\ logs[3].timestamp = DateTimeStr(31 * Day)
  /\ out.op = "change_password" /\ out.ret = TRUE
  /\ patients.rows = <<>>

(***************************************************************************)
(* Properties of the field cipher                                          *)
(***************************************************************************)
\* C16: decrypt_data applied to what encrypt_data returned for a string,
\* the empty string included, returns that string; None given to either
\* returns None and fernet is not called.
C16_RoundTrip ==
  /\ (out.op = "decrypt_data" /\ out.produced /\ out.plaintext # None)
       => out.raised = "" /\ out.ret = out.plaintext
  /\ (out.op = "encrypt_data" /\ out.plaintext = None)
       => out.ret = None /\ ~out.fernet
  /\ (out.op = "decrypt_data" /\ out.ciphertext = None)
       => out.raised = "" /\ out.ret = None /\ ~out.fernet

\* The empty string has come back from its token
C16_Witness ==
  /\ out.op = "decrypt_data"
  /\ out.produced
  /\ out.plaintext = <<>>
  /\ out.ciphertext = FernetToken(FERNET_KEY, <<>>)
  /\ out.ret = <<>>
  /\ out.fernet

\* C17: decrypt_data given typed text, a token of another key, a tampered
\* token or a cut token raises InvalidToken and returns nothing; the
\* doctor's table, which catches that error, shows its error marker for
\* such a value and never the value.
C17_ForeignValueFails ==
  /\ (out.op = "decrypt_data" /\ ~out.produced)
       => out.raised = "InvalidToken" /\ out.ret = None
  /\ (out.op = "decrypt_diagnosis_column" /\ out.ciphertext \in ForeignInputs)
       => out.cell = <<"[Decryption error]">>

\* A diagnosis stored as typed has been refused
C17_Witness ==
  /\ out.op = "decrypt_data"
  /\ out.ciphertext = s_fever
  /\ out.raised = "InvalidToken"

(***************************************************************************)
(* Properties of the masking functions                                     *)
(***************************************************************************)
\* Number of digits among the characters of s from position i to the end
DigitsFrom(s, i) == Cardinality({j \in i..Len(s) : IsDigit(s[j])})

C19_MasksFollowRawFields ==
  \A i \in 1..Len(patients.rows) :
    /\ patients.rows[i].anonymized_name = mask_name(patients.rows[i].name)
    /\ patients.rows[i].anonymized_contact = mask_contact(patients.rows[i].contact)

\* A receptionist has changed the contact alone of a patient taken in as
\* Ann with 5551234
C19_Witness ==
  /\ out.op = "receptionist_page"
  /\ out.click = "edit"
  /\ Len(patients.rows) = 1
  /\ patients.rows[1].name = s_Ann
  /\ patients.rows[1].contact = s_5559876
  /\ patients.rows[1].anonymized_contact = <<"X", "X", "X", "9", "8", "7", "6">>

(***************************************************************************)
(* Properties of the sweep's audit entry and of its counters               *)
(***************************************************************************)
\* A step that is a run_data_retention call
SweepStep == out'.op = "run_data_retention" /\ auditUp' = auditUp /\ now' = now

\* The logs table has grown by one gdpr_delete entry of the caller
SweepEntryWritten ==
  /\ Len(logs') = Len(logs) + 1
  /\ SubSeq(logs', 1, Len(logs)) = logs
  /\ logs'[Len(logs')].action = s_gdpr_delete
  /\ logs'[Len(logs')].user_id = out'.user_id
  /\ logs'[Len(logs')].role = (IF out'.role = None THEN s_system ELSE out'.role)
  /\ logs'[Len(logs')].timestamp = DateTimeStr(now)

\* C21 as stated: a run_data_retention call appends a gdpr_delete entry of
\* the caller exactly when it deleted at least one patient.
C21_EntryIffDeleted ==
  [][SweepStep =>
       IF Len(patients'.rows) < Len(patients.rows)
       THEN SweepEntryWritten ELSE logs' = logs]_vars

\* C21: a run_data_retention call that deletes nothing appends nothing; one
\* that deletes at least one patient and returns appends one gdpr_delete
\* entry with the caller's user id and role ("system" for None) while the
\* audit storage is writable, and nothing while it is not; a call that
\* raises appends nothing.
C21_EntryIffDeletedAndLogged ==
  [][SweepStep =>
       IF /\ Len(patients'.rows) < Len(patients.rows)
          /\ out'.raised = ""
          /\ auditUp
       THEN SweepEntryWritten ELSE logs' = logs]_vars

\* A sweep called with role None has deleted two patients and its entry
\* is the only one, with role "system" and no user id
C21_Witness ==
  /\ out.op = "run_data_retention"
  /\ out.role = None
  /\ out.raised = ""
  /\ out.ret[1] = 2
  /\ Len(patients.rows) = 1
  /\ Len(logs) = 1
  /\ logs[1].action = s_gdpr_delete
  /\ logs[1].role = s_system
  /\ logs[1].user_id = NULL

\* total_deleted_count as the settings file holds it (0 while there is no
\* file)
PersistedTotal(file) == load_gdpr_settings(file).settings.total_deleted_count

\* A run_data_retention call that returned
CompletedSweep == SweepStep /\ out'.raised = ""

\* C22: a run_data_retention call that returns right after one that
\* returned, at the same instant and under the same retention_days, returns
\* deleted_now = 0 and the same total and deletes nothing; and
\* total_deleted_count in the settings file grows by deleted_now with each
\* call that returns and changes at no other step, so that it is the sum of
\* deleted_now over the calls that returned.
C22_SweepIdempotent ==
  [][/\ (/\ CompletedSweep
          /\ out.op = "run_data_retention" /\ out.raised = ""
          /\ gdpr # <<>> /\ gdpr[1].last_run = DateTimeStr(now))
        => /\ out'.ret[1] = 0
           /\ out'.ret[2] = out.ret[2]
           /\ patients' = patients
     /\ PersistedTotal(gdpr') =
          PersistedTotal(gdpr) + (IF CompletedSweep THEN out'.ret[1] ELSE 0)
     /\ CompletedSweep =>
          /\ out'.ret[2] = PersistedTotal(gdpr')
          /\ out'.ret[1] = Len(patients.rows) - Len(patients'.rows)]_vars

\* A second sweep at day 31 after one that deleted two patients under a
\* retention of 30 days: nothing deleted, the total still 2
C22_Witness ==
  /\ out.op = "run_data_retention"
  /\ out.raised = ""
  /\ out.ret = <<0, 2, 30>>
  /\ now = 31 * Day
  /\ gdpr[1].last_run = DateTimeStr(31 * Day)
  /\ gdpr[1].last_deleted_count = 0
  /\ gdpr[1].total_deleted_count = 2
  /\ Len(patients.rows) = 1

\* A step that saves a retention period, by the function alone or from the
\* admin's tab
SaveStep ==
  /\ \/ out'.op = "save_retention"
     \/ out'.op = "admin_page" /\ out'.click = "save_retention"
  /\ auditUp' = auditUp
  /\ now' = now

\* C23: saving a retention period deletes no patient, appends no audit
\* entry and leaves last_run, last_deleted_count and total_deleted_count
\* of the settings as they were; a run_data_retention call that returns
\* while that period is the one saved last uses it for its cutoff.
C23_SavePeriodOnly ==
  [][/\ SaveStep =>
          /\ patients' = patients
          /\ logs' = logs
          /\ gdpr' = <<[load_gdpr_settings(gdpr).settings EXCEPT
                          !.retention_days = out'.new_retention]>>
     /\ (/\ CompletedSweep
         /\ \/ out.op = "save_retention"
            \/ out.op = "admin_page" /\ out.click = "save_retention")
          => /\ out'.ret[3] = out.new_retention
             /\ patients'.rows =
                  SelectSeq(patients.rows,
                            LAMBDA row : Instant(row.date_added)
                                           > now - out.new_retention * Day)]_vars

\* The admin has saved 30 days at day 31 after a sweep under the default
\* period that deleted nothing: the three patients are still there, the
\* log holds the login entries only and the counters are those of the sweep
C23_Witness ==
  /\ out.op = "admin_page"
  /\ out.click = "save_retention"
  /\ out.new_retention = 30
  /\ now = 31 * Day
  /\ Len(patients.rows) = 3
  /\ gdpr[1].retention_days = 30
  /\ gdpr[1].last_run = DateTimeStr(31 * Day)
  /\ gdpr[1].last_deleted_count = 0
  /\ gdpr[1].total_deleted_count = 0
  /\ \A i \in 1..Len(logs) : logs[i].action # s_gdpr_delete

(***************************************************************************)
(* Properties of interleaved sweeps                                        *)
(***************************************************************************)
\* No run_data_retention call is between its first and its last line
NoSweepRunning == \A c \in Callers : cu[c].pc \in {"idle", "done"}

\* C24 as stated: whenever no sweep is under way, total_deleted_count in
\* the settings file is the number of patients the sweeps have deleted
\* since the file was created (here: of the three patients, those gone).
C24_NoLostUpdate ==
  NoSweepRunning =>
    PersistedTotal(gdpr) = Len(ThreePatients.rows) - Len(patients.rows)

\* Two sweeps have returned, one having deleted the three patients, and
\* the settings file says that none was ever deleted
C24_Witness ==
  /\ cu["c1"].pc = "done"
  /\ cu["c2"].pc = "done"
  /\ cu["c1"].ret[1] = 3
  /\ cu["c2"].ret[1] = 0
  /\ patients.rows = <<>>
  /\ gdpr[1].total_deleted_count = 0

(***************************************************************************)
(* Properties of the key across process starts                             *)
(***************************************************************************)
\* C25 as stated: the key a running process encrypts under is the one
\* saved in .env, and every stored diagnosis decrypts under the key of the
\* process running now, whichever earlier process encrypted it.
C25_KeyCreatedOnce ==
  FERNET_KEY # "" =>
    /\ ENV_FILE = FERNET_KEY
    /\ \A i \in 1..Len(patients.rows) : decrypt_data(patients.rows[i].diagnosis).ok

\* A diagnosis taken in by a process whose key was never saved, shown by
\* the process started after it as a decryption error
C25_Witness ==
  /\ out.op = "decrypt_diagnosis_column"
  /\ out.ciphertext = FernetToken(KeyPool[1], s_fever)
  /\ out.cell = <<"[Decryption error]">>
  /\ FERNET_KEY = KeyPool[2]
  /\ ENV_FILE = KeyPool[2]

(***************************************************************************)
(* Properties of the mass anonymization                                    *)
(***************************************************************************)
MassAnonymizeStep ==
  /\ out'.op = "admin_page"
  /\ out'.click = "mass_anonymize"
  /\ auditUp' = auditUp
  /\ now' = now

\* C26 as stated: a stored diagnosis that decrypt_data turns into a
\* plaintext before "Mask All Names & Contacts" is clicked is turned into
\* the same plaintext by one decrypt_data after it.
C26_DiagnosisPreserved ==
  [][MassAnonymizeStep =>
       \A i \in 1..Len(patients.rows) :
         decrypt_data(patients.rows[i].diagnosis).ok =>
           decrypt_data(patients'.rows[i].diagnosis)
             = decrypt_data(patients.rows[i].diagnosis)]_vars

\* After one pass over a patient taken in with diagnosis "fever", one
\* decrypt_data of the stored column gives a token, not the diagnosis
C26_Witness ==
  /\ out.op = "admin_page"
  /\ out.click = "mass_anonymize"
  /\ Len(patients.rows) = 1
  /\ decrypt_data(patients.rows[1].diagnosis) = Ok(FernetToken(FERNET_KEY, s_fever))

(***************************************************************************)
(* Properties of an edit whose row is deleted under it                     *)
(***************************************************************************)
\* The UPDATE of "Save Changes" and what follows it, for a row that is
\* not in the table any more
WriteToDeleted ==
  /\ out'.op = "admin_page"
  /\ out'.click = "update"
  /\ cu["c1"].pc = "update_patient"
  /\ get_patient_by_id(patients, cu["c1"].pid) = <<>>
  /\ auditUp' = auditUp
  /\ now' = now

\* C27 as stated: when the row was deleted between the form's read and
\* its write, the write changes no row, the row is not there afterwards,
\* and no audit entry is appended.
C27_EditOfDeletedHasNoEffect ==
  [][WriteToDeleted =>
       /\ patients' = patients
       /\ get_patient_by_id(patients', cu["c1"].pid) = <<>>
       /\ logs' = logs]_vars

\* Patient 1 swept between the read and the write of an edit, and the
\* audit trail saying that patient 1 was updated
C27_Witness ==
  /\ out.op = "admin_page"
  /\ out.click = "update"
  /\ out.pid = 1
  /\ get_patient_by_id(patients, 1) = <<>>
  /\ Len(logs) = 2
  /\ logs[1].action = s_gdpr_delete
  /\ logs[2].action = s_update
  /\ logs[2].details = <<"Updated patient ">> \o IntToStr(1)

(***************************************************************************)
(* Properties of the sweep with respect to the moment of intake            *)
(***************************************************************************)
\* A sweep that returned and removed a row
PurgeStep ==
  /\ out'.op = "run_data_retention"
  /\ out'.raised = ""
  /\ Len(patients'.rows) < Len(patients.rows)
  /\ auditUp' = auditUp

\* C28 as stated: a sweep removes a patient only when at least
\* retention_days days have passed since the patient was taken in, by the
\* admin's form or by the receptionist's.
C28_NoEarlyPurge ==
  [][PurgeStep =>
       now - IntakeAt >= load_gdpr_settings(gdpr).settings.retention_days * Day]_vars

\* The receptionist's patient of day 2, 12:00, removed by the 30-day sweep
\* of day 32, 01:00
C28_Witness ==
  /\ out.op = "run_data_retention"
  /\ out.ret = <<1, 1, 30>>
  /\ now = 32 * Day + 3600
  /\ Get(session, "role", None) = s_receptionist
  /\ patients = [rows |-> <<>>, seq |-> 1]

(***************************************************************************)
(* Properties of the login page's attempt counter                          *)
(***************************************************************************)
\* The Login button handled (the form having been shown)
SubmitStep ==
  /\ out'.op = "login_page"
  /\ out'.click = "submit"
  /\ auditUp' = auditUp
  /\ now' = now

\* C29: a submission with the right password logs in and sets
\* login_attempts to 0, whatever the counter was; a failed one makes the
\* counter 1 or 2 and shows 3 minus that as the attempts left, except the
\* third in a row, which sets it to 0 and goes to the landing page; so the
\* counter is 0, 1 or 2 after every submission.
C29_AttemptsCounter ==
  [][SubmitStep =>
       LET before == LoginDefaults(session)["login_attempts"]
           after  == session'["login_attempts"]
       IN  /\ after \in 0..2
           /\ IF Verifies(out'.username, out'.password)
              THEN /\ out'.ok
                   /\ after = 0
                   /\ session'["logged_in"]
                   /\ session'["username"] = out'.username
                   /\ out'.page \in Pages
              ELSE /\ ~out'.ok
                   /\ "logged_in" \notin DOMAIN session'
                   /\ IF before = 2
                      THEN after = 0 /\ out'.page = "app"
                      ELSE /\ after = before + 1
                           /\ out'.page = "login_page"
                           /\ 3 - after \in {1, 2}
                           /\ out'.message =
                                <<"Invalid username or password. Attempts left: ">>
                                  \o IntToStr(3 - after)]_vars

\* The admin logged in at the second try, the first being the one entry
\* of a failure in the audit trail, and the counter back at 0
C29_Witness ==
  /\ out.op = "login_page"
  /\ out.click = "submit"
  /\ out.ok
  /\ session["login_attempts"] = 0
  /\ Len(logs) = 3
  /\ Head(logs[1].details) = "LOGIN_FAILED username="
  /\ logs[3].details = s_admin \o <<" logged in.">>

(***************************************************************************)
(* Properties of the session between login and logout                      *)
(***************************************************************************)
LogoutStep ==
  /\ out'.op \in Pages
  /\ out'.body
  /\ out'.click = "logout"
  /\ auditUp' = auditUp

\* The session holds nobody's identity
SignedOut(sess) == "user_id" \notin DOMAIN sess

\* C30: Logout leaves a session that the guard of every dashboard refuses
\* as NotAuthenticated; a signed-out session opening a dashboard is refused
\* so, runs no page body and stays as it is; a signed-out session becomes
\* a signed-in one only by a successful submission of the login form; and
\* the role a session holds is the role stored for its user.
C30_LogoutEndsAccess ==
  [][/\ LogoutStep =>
          /\ SignedOut(session')
          /\ \A page \in Pages :
               Guard(session', RequiredRole(page)) = "NotAuthenticated"
     /\ (SignedOut(session) /\ out'.op \in Pages) =>
          /\ out'.guard = "NotAuthenticated"
          /\ ~out'.body
          /\ session' = session
     /\ (SignedOut(session) /\ ~SignedOut(session')) =>
          /\ out'.op = "login_page"
          /\ out'.click = "submit"
          /\ out'.ok
     /\ ~SignedOut(session') =>
          \E i \in 1..Len(users) :
            /\ users[i].user_id = session'["user_id"]
            /\ users[i].username = session'["username"]
            /\ users[i].role = session'["role"]]_vars

\* The admin logged in and out, and the admin dashboard opened afterwards
\* refused as not authenticated
C30_Witness ==
  /\ out.op = "admin_page"
  /\ out.guard = "NotAuthenticated"
  /\ ~out.body
  /\ SignedOut(session)
  /\ Len(logs) = 3
  /\ logs[2].details = s_admin \o <<" logged in.">>
  /\ logs[3].details = <<"ACCESS_DENIED: not logged in">>
====
